---- MODULE Spec2Model ----
(***************************************************************************)
(* Model of the CSV-to-MySQL ingestion scripts of the Ecological Data      *)
(* Dashboard.  Every script is one main(): check the source, read and      *)
(* validate the CSV, transform it into records, connect, insert the        *)
(* records in batches (one transaction per batch), verify, close.          *)
(*                                                                         *)
(* Spec      one run of one ingester against one table.                    *)
(* SpecConv  the value converters applied to a cell text.                  *)
(***************************************************************************)
EXTENDS Integers, Sequences, FiniteSets, TLC

\* ------------------------------------------------------------------ bounds
\* most prepared records in one input file
MaxRows == 3
\* largest batch size tried (BATCH_SIZE is 10, 1000, 5000 or 10000 in the scripts)
MaxBatch == 2
\* rows already in the target table before the run
MaxOld == 1

\* The CSV files a weather directory may hold, in the order of sorted(glob).
WeatherFiles == <<"noaa_2022.csv", "noaa_2023.csv">>

Null == "NULL"

\* ------------------------------------------------------------- the scripts
Ingesters ==
  {"i1995", "i2005", "i2015", "air", "berkeley", "heat", "weather", "hyperlocal"}

\* The scripts whose batch loop is `start, end = b * BATCH_SIZE, min(...)`.
IndexForm == {"i2015", "berkeley"}

\* CSV_PATH.name of the single-file scripts.
CsvName(i) ==
  CASE i = "i1995"      -> "1995_Street_Tree_Census_20251014 copy.csv"
    [] i = "i2005"      -> "2005_Street_Tree_Census_20251014 copy.csv"
    [] i = "i2015"      -> "2015_Street_Tree_Census_-_Tree_Data_20251014_copy.csv"
    [] i = "air"        -> "Air_Quality_20251018 copy.csv"
    [] i = "berkeley"   -> "berkeley-earth-temperature-data.csv"
    [] i = "heat"       -> "Heat_Vulnerability_Index_Rankings_20251018 copy.csv"
    [] i = "hyperlocal" -> "Hyperlocal_Temperature_Monitoring_20251018 copy.csv"

INSERT_COLUMNS_1995 ==
  {"record_id", "address", "house_number", "street", "postcode_original",
   "community_board_original", "site", "species", "diameter", "condition",
   "health_3cat", "wires", "sidewalk_condition", "support_structure", "borough",
   "x", "y", "longitude", "latitude", "cb_new", "zip_new", "censustract_2010",
   "censusblock_2010", "nta_2010", "segmentid", "spc_common", "spc_latin",
   "location", "council_district", "bin", "bbl", "file_name"}

SRC_COLUMNS_1995 ==
  {"recordid", "address", "house_number", "street", "postcode_original",
   "community_board_original", "site", "species", "diameter", "condition",
   "wires", "sidewalk_condition", "support_structure", "borough",
   "x", "y", "longitude", "latitude", "cb_new", "zip_new", "censustract_2010",
   "censusblock_2010", "nta_2010", "segmentid", "spc_common", "spc_latin",
   "location", "council_district", "bin", "bbl"}

INSERT_COLUMNS_2005 ==
  {"cen_year", "tree_dbh", "address", "tree_loc", "pit_type", "soil_lvl",
   "status", "spc_latin", "spc_common",
   "vert_other", "vert_pgrd", "vert_tgrd", "vert_wall",
   "horz_blck", "horz_grate", "horz_plant", "horz_other",
   "sidw_crack", "sidw_raise",
   "wire_htap", "wire_prime", "wire_2nd", "wire_other",
   "inf_canopy", "inf_guard", "inf_wires", "inf_paving", "inf_outlet",
   "inf_shoes", "inf_lights", "inf_other",
   "trunk_dmg", "zipcode", "zip_city", "cb_num", "borocode", "boroname",
   "cncldist", "st_assem", "st_senate", "nta", "nta_name", "boro_ct", "state",
   "latitude", "longitude", "x_sp", "y_sp",
   "objectid_1", "census_tract", "bin", "bbl", "location_1",
   "file_name", "health_3cat"}

SRC_COLUMNS_2005 ==
  (INSERT_COLUMNS_2005 \ {"file_name", "health_3cat"}) \cup {"objectid"}

INSERT_COLUMNS_2015 ==
  {"tree_id", "block_id", "created_at", "tree_dbh", "stump_diam",
   "curb_loc", "status", "health", "health_3cat",
   "spc_latin", "spc_common", "steward",
   "guards", "sidewalk", "user_type", "problems", "root_stone",
   "root_grate", "root_other", "trunk_wire", "trnk_light",
   "trnk_other", "brch_light", "brch_shoe", "brch_other", "address",
   "postcode", "zip_city", "community_board", "borocode",
   "borough", "cncldist", "st_assem", "st_senate", "nta",
   "nta_name", "boro_ct", "state", "latitude", "longitude", "x_sp", "y_sp",
   "council_district", "census_tract", "bin", "bbl", "file_name"}

INSERT_COLUMNS_AIR ==
  {"unique_id", "indicator_id", "name", "measure", "measure_info",
   "geo_type_name", "geo_type_id", "geo_place_name", "borough_norm_air",
   "geo_level", "time_period", "start_date", "data_value", "message",
   "file_name"}

INSERT_COLUMNS_BERKELEY ==
  {"year", "month", "monthly_anomaly", "monthly_uncertainty",
   "annual_anomaly", "annual_uncertainty",
   "fiveyear_anomaly", "fiveyear_uncertainty",
   "tenyear_anomaly", "tenyear_uncertainty",
   "twentyyear_anomaly", "twentyyear_uncertainty",
   "abs_monthly_temp", "abs_annual_temp",
   "abs_5y_temp", "abs_10y_temp", "abs_20y_temp", "yearly_mean_temp",
   "abs_monthly_temp_f", "abs_annual_temp_f",
   "abs_5y_temp_f", "abs_10y_temp_f", "abs_20y_temp_f", "yearly_mean_temp_f",
   "file_name"}

INSERT_COLUMNS_HEAT == {"zip_code_tabulation_area", "heat_vulerability_index"}

INSERT_COLUMNS_WEATHER ==
  {"station_id", "station_name", "date_month",
   "cdsd", "emnt", "emxt", "hdsd", "tavg", "tmax", "tmin",
   "tavg_c", "tmax_c", "tmin_c", "file_name"}

INSERT_COLUMNS_HYPERLOCAL ==
  {"senor_id", "air_temp", "day", "hour", "latitude", "longitude",
   "year", "install_type", "borough", "ntacode"}

\* The columns of the records a script sends to executemany.
INSERT_COLUMNS(i) ==
  CASE i = "i1995"      -> INSERT_COLUMNS_1995
    [] i = "i2005"      -> INSERT_COLUMNS_2005
    [] i = "i2015"      -> INSERT_COLUMNS_2015
    [] i = "air"        -> INSERT_COLUMNS_AIR
    [] i = "berkeley"   -> INSERT_COLUMNS_BERKELEY
    [] i = "heat"       -> INSERT_COLUMNS_HEAT
    [] i = "weather"    -> INSERT_COLUMNS_WEATHER
    [] i = "hyperlocal" -> INSERT_COLUMNS_HYPERLOCAL

\* ------------------------------------------------------- the input header
\* A header is described by the one source column it lacks ("none": complete).
\* For the berkeley file, whose columns are renamed by position, "col12"
\* stands for a header of fewer than twelve columns.
MissChoices(i) ==
  CASE i = "i1995"      -> {"none", "recordid", "condition"}
    [] i = "i2005"      -> {"none", "objectid", "status"}
    [] i = "i2015"      -> {"none", "created_at", "tree_id"}
    [] i = "air"        -> {"none", "start_date", "data_value", "unique_id",
                            "geo_place_name", "message"}
    [] i = "berkeley"   -> {"none", "col12"}
    [] i = "heat"       -> {"none", "heat_vulerability_index"}
    [] i = "weather"    -> {"none", "date", "tavg"}
    [] i = "hyperlocal" -> {"none", "sensor_id"}

\* The columns of the weather file that are filled with None when absent.
WEATHER_OPTIONAL == {"cdsd", "hdsd", "emnt", "emxt", "tavg", "tmax", "tmin"}

\* What reading, validating and transforming a file with that header ends in:
\* "ok", or the exception raised before any record is prepared.
ReadOutcome(i, miss) ==
  CASE i = "hyperlocal" -> "NameError"
    [] miss = "none" -> "ok"
    [] i = "i1995" -> IF miss \in SRC_COLUMNS_1995 THEN "ValueError" ELSE "ok"
    [] i = "i2005" -> IF miss \in SRC_COLUMNS_2005 THEN "ValueError" ELSE "ok"
    [] i = "heat" ->
         IF miss \in (INSERT_COLUMNS_HEAT \ {"file_name"}) THEN "ValueError" ELSE "ok"
    [] i = "i2015" -> "KeyError"
    [] i = "air" ->
         IF miss \in {"start_date", "data_value"} THEN "ok"
         ELSE IF miss \in {"unique_id", "indicator_id", "geo_join_id"} THEN "TypeError"
         ELSE "KeyError"
    [] i = "berkeley" -> "IndexError"
    [] i = "weather" ->
         IF miss \in {"station", "name", "date"} THEN "ValueError" ELSE "ok"

\* tavg_c, tmax_c and tmin_c are computed from tavg, tmax and tmin by f_to_c,
\* which maps None to None.
CelsiusOf(c) ==
  CASE c = "tavg" -> {"tavg_c"}
    [] c = "tmax" -> {"tmax_c"}
    [] c = "tmin" -> {"tmin_c"}
    [] OTHER -> {}

\* The insert columns that a header lacking `miss` leaves filled with None.
Defaulted(i, miss) ==
  CASE i = "air" /\ miss \in {"start_date", "data_value"} -> {miss}
    [] i = "weather" /\ miss \in WEATHER_OPTIONAL -> {miss} \cup CelsiusOf(miss)
    [] OTHER -> {}

\* The columns of the unique key that ON DUPLICATE KEY UPDATE of the weather
\* loader works on: the natural key of weather_monthly.
NATURAL_KEY == {"station_id", "date_month"}

\* The columns whose value decides whether two rows are duplicates.
KeyColumns(i) == IF i = "weather" THEN NATURAL_KEY ELSE {}

\* update_list: f"{c}=VALUES({c})" for c in INSERT_COLUMNS if c not in
\* {"station_id", "date_month"}
update_list_FileNameOnly == {"file_name"}

update_list == INSERT_COLUMNS_WEATHER \ {"station_id", "date_month"}

\* Record r of file `name`: df[INSERT_COLUMNS] after df["file_name"] = name.
\* A data cell is represented by the number of its row; the cells of the key
\* columns by the key of the row.
Record(i, name, miss, key, r) ==
  [c \in INSERT_COLUMNS(i) |->
     IF c = "file_name" THEN name
     ELSE IF c \in Defaulted(i, miss) THEN Null
     ELSE IF c \in KeyColumns(i) THEN key
     ELSE r]

\* records = df.values.tolist()
Records(i, f) == [r \in 1..f.rows |-> Record(i, f.name, f.miss, f.keys[r], r)]


\* A row that was in the table before the run.
OldRow(i) == [c \in INSERT_COLUMNS(i) |-> IF c = "file_name" THEN "earlier load" ELSE 0]

\* ---------------------------------------------------------------- helpers
Min(x, y) == IF x <= y THEN x ELSE y

\* INSERT ... ON DUPLICATE KEY UPDATE update_list, for one record: a stored
\* row with the record's key takes the record's update_list columns; when
\* there is none the record is added.
Upsert(tbl, rec) ==
  LET Dup(k) == \A c \in NATURAL_KEY : tbl[k][c] = rec[c]
      dups == {k \in 1..Len(tbl) : Dup(k)}
  IN IF dups = {} THEN Append(tbl, rec)
     ELSE [k \in 1..Len(tbl) |->
             IF k \in dups
               THEN [c \in DOMAIN tbl[k] |-> IF c \in update_list THEN rec[c] ELSE tbl[k][c]]
               ELSE tbl[k]]

\* The table after the rows of a committed transaction: added (INSERT), or
\* for the weather loader upserted one after the other.
RECURSIVE Stored_SkipDuplicates(_, _, _)
Stored_SkipDuplicates(i, tbl, rows) ==
  IF rows = <<>> THEN tbl
  ELSE IF \E k \in 1..Len(tbl) : tbl[k] = Head(rows)
    THEN Stored_SkipDuplicates(i, tbl, Tail(rows))
  ELSE Stored_SkipDuplicates(i, Append(tbl, Head(rows)), Tail(rows))

RECURSIVE Stored(_, _, _)
Stored(i, tbl, rows) ==
  IF rows = <<>> THEN tbl
  ELSE IF i = "weather" THEN Stored(i, Upsert(tbl, Head(rows)), Tail(rows))
  ELSE tbl \o rows

\* records[start:end] of Python: 0-based, end exclusive, clipped to the list.
Slice(seq, from, to) == SubSeq(seq, from + 1, Min(to, Len(seq)))

Floor_Batches(n, size) == n \div size

\* math.ceil(total / BATCH_SIZE)
Ceil_Batches(n, size) == (n + size - 1) \div size

\* ------------------------------------------------------------ cell texts
\* A text is the sequence of its characters, each a one-character string.
\* The values a converter returns, and an exception leaving it:
NoneV == [t |-> "none"]
IntV(n) == [t |-> "int", v |-> n]
StrV(s) == [t |-> "str", v |-> s]
TextV(s) == [t |-> "text", v |-> s]
RaiseV(e) == [t |-> "raise", v |-> e]
\* A float: k is "finite", "inf" or "nan"; a finite one is (-1)^neg * man * 10^exp.
FloatV(k, neg, man, exp) == [t |-> "float", k |-> k, neg |-> neg, man |-> man, exp |-> exp]

\* The whitespace characters of the texts tried (str.strip() and \s agree on them).
Space == {" ", "\t"}

UpperCase == <<"A", "B", "C", "D", "E", "F", "G", "H", "I", "J", "K", "L", "M",
               "N", "O", "P", "Q", "R", "S", "T", "U", "V", "W", "X", "Y", "Z">>
LowerCase == <<"a", "b", "c", "d", "e", "f", "g", "h", "i", "j", "k", "l", "m",
               "n", "o", "p", "q", "r", "s", "t", "u", "v", "w", "x", "y", "z">>
Digit == <<"0", "1", "2", "3", "4", "5", "6", "7", "8", "9">>

LowerChar(c) ==
  IF \E k \in 1..Len(UpperCase) : UpperCase[k] = c
    THEN LowerCase[CHOOSE k \in 1..Len(UpperCase) : UpperCase[k] = c]
    ELSE c
UpperChar(c) ==
  IF \E k \in 1..Len(LowerCase) : LowerCase[k] = c
    THEN UpperCase[CHOOSE k \in 1..Len(LowerCase) : LowerCase[k] = c]
    ELSE c

\* str.lower()
Lower(s) == [k \in 1..Len(s) |-> LowerChar(s[k])]

\* str.strip()
Strip(s) ==
  LET ink == {k \in 1..Len(s) : s[k] \notin Space} IN
    IF ink = {} THEN <<>>
    ELSE SubSeq(s, CHOOSE k \in ink : \A j \in ink : k <= j,
                   CHOOSE k \in ink : \A j \in ink : k >= j)

\* re.sub(r"[,\s]", "", s)
RemoveCommaSpace(s) ==
  LET Keep(c) == c \notin (Space \cup {","}) IN SelectSeq(s, Keep)

IsDigit(c) == \E k \in 1..Len(Digit) : Digit[k] = c
DigitVal(c) == (CHOOSE k \in 1..Len(Digit) : Digit[k] = c) - 1
AllDigits(s) == \A k \in 1..Len(s) : IsDigit(s[k])

RECURSIVE NatOf(_)
NatOf(ds) ==
  IF ds = <<>> THEN 0
  ELSE NatOf(SubSeq(ds, 1, Len(ds) - 1)) * 10 + DigitVal(ds[Len(ds)])

RECURSIVE Pow10(_)
Pow10(n) == IF n <= 0 THEN 1 ELSE 10 * Pow10(n - 1)

\* `key in n` of Python: key occurs in n as a substring.
Contains(n, key) ==
  \E k \in 0..(Len(n) - Len(key)) : SubSeq(n, k + 1, k + Len(key)) = key

\* re.fullmatch(r"-?\d+", t)
FullMatchInt(s) ==
  LET body == IF s # <<>> /\ s[1] = "-" THEN Tail(s) ELSE s IN
    body # <<>> /\ AllDigits(body)

\* int(t) for a t that matches -?\d+
IntOfText(s) == IF s[1] = "-" THEN 0 - NatOf(Tail(s)) ELSE NatOf(s)

\* ------------------------------------------------------ normalize_headers
\* str.replace(" ", "_")
ReplaceSpace(s) == [k \in 1..Len(s) |-> IF s[k] = " " THEN "_" ELSE s[k]]

normalize_headers_NoStrip(cols) ==
  [k \in 1..Len(cols) |-> ReplaceSpace(Lower(cols[k]))]

\* [c.strip().lower().replace(" ", "_") for c in cols]
normalize_headers(cols) ==
  [k \in 1..Len(cols) |-> ReplaceSpace(Lower(Strip(cols[k])))]

\* --------------------------------------------- 1995 / 2005: to_bool .. to_dec
to_bool_FirstLetter(s) ==
  LET u == Lower(Strip(s)) IN
    IF u # <<>> /\ u[1] \in {"y", "1", "t"} THEN IntV(1)
    ELSE IF u # <<>> /\ u[1] \in {"n", "0", "f"} THEN IntV(0)
    ELSE NoneV

to_bool(s) ==
  LET u == Lower(Strip(s)) IN
    IF u \in {<<"y">>, <<"y", "e", "s">>, <<"1">>, <<"t", "r", "u", "e">>, <<"t">>} THEN IntV(1)
    ELSE IF u \in {<<"n">>, <<"n", "o">>, <<"0">>, <<"f", "a", "l", "s", "e">>, <<"f">>} THEN IntV(0)
    ELSE NoneV

to_int(s) ==
  LET u == RemoveCommaSpace(s) IN
    IF u # <<>> /\ FullMatchInt(u) THEN IntV(IntOfText(u)) ELSE NoneV

to_int_bounded_Exclusive(s, low, high) ==
  LET v == to_int(s) IN
    IF v.t = "none" THEN NoneV
    ELSE IF low <= v.v /\ v.v < high THEN v ELSE NoneV

to_int_bounded(s, low, high) ==
  LET v == to_int(s) IN
    IF v.t = "none" THEN NoneV
    ELSE IF low <= v.v /\ v.v <= high THEN v ELSE NoneV

\* to_year of 2005
to_year(s) == to_int(s)

\* float(x) of Python for a text x: surrounding whitespace and a sign are
\* allowed; inf, infinity and nan in any letter case; else digits with an
\* optional point and an optional exponent.  Raises ValueError otherwise.
\* (Underscores between digits and non-ASCII digits are not in the texts tried.)
SplitAt(s, cs) ==
  LET at == {k \in 1..Len(s) : s[k] \in cs} IN
    IF at = {} THEN <<s>>
    ELSE LET k == CHOOSE k \in at : \A j \in at : k <= j IN
           <<SubSeq(s, 1, k - 1), SubSeq(s, k + 1, Len(s))>>

Unsigned(s) == IF s # <<>> /\ s[1] \in {"+", "-"} THEN Tail(s) ELSE s
IsNegative(s) == s # <<>> /\ s[1] = "-"

RECURSIVE NumDigits(_)
NumDigits(n) == IF n < 10 THEN 1 ELSE 1 + NumDigits(n \div 10)

\* More than the largest double (about 1.797e308) becomes inf.
Overflows(man, exp) == man > 0 /\ NumDigits(man) + exp > 309

PyFloat(s) ==
  LET u == Strip(s)
      neg == IsNegative(u)
      r == Unsigned(u)
      me == SplitAt(r, {"e", "E"})
      mant == SplitAt(me[1], {"."})
      intd == mant[1]
      frac == IF Len(mant) = 2 THEN mant[2] ELSE <<>>
      expt == IF Len(me) = 2 THEN me[2] ELSE <<>>
      expd == Unsigned(expt)
      okMant == AllDigits(intd) /\ AllDigits(frac) /\ Len(intd) + Len(frac) > 0
      okExp == Len(me) = 1 \/ (expd # <<>> /\ AllDigits(expd))
  IN IF Lower(r) \in {<<"i", "n", "f">>, <<"i", "n", "f", "i", "n", "i", "t", "y">>} THEN FloatV("inf", neg, 0, 0)
     ELSE IF Lower(r) = <<"n", "a", "n">> THEN FloatV("nan", FALSE, 0, 0)
     ELSE IF okMant /\ okExp
       THEN LET man == NatOf(intd \o frac)
                ev == IF Len(me) = 1 THEN 0
                      ELSE IF IsNegative(expt) THEN 0 - NatOf(expd) ELSE NatOf(expd)
                exp == ev - Len(frac)
            IN IF Overflows(man, exp) THEN FloatV("inf", neg, 0, 0)
               ELSE FloatV("finite", neg, man, exp)
       ELSE RaiseV("ValueError")

\* int(x) of Python for a float x: truncation; inf and nan raise.
PyIntOfFloat(f) ==
  IF f.k = "inf" THEN RaiseV("OverflowError")
  ELSE IF f.k = "nan" THEN RaiseV("ValueError")
  ELSE LET mag == IF f.exp >= 0 THEN f.man * Pow10(f.exp)
                  ELSE IF 0 - f.exp > 9 THEN 0
                  ELSE f.man \div Pow10(0 - f.exp)
       IN IntV(IF f.neg THEN 0 - mag ELSE mag)

\* try: float(t) ... except ValueError: None
FloatOrNone(s) == IF PyFloat(s).t = "raise" THEN NoneV ELSE PyFloat(s)

to_dec(s) ==
  LET u == RemoveCommaSpace(s) IN
    IF u # <<>> THEN FloatOrNone(u) ELSE NoneV

condition_to_health_3cat_Substring(s) ==
  LET u == Lower(Strip(s)) IN
    IF Contains(u, <<"e", "x", "c", "e", "l", "l", "e", "n", "t">>) THEN StrV("Good")
    ELSE IF Contains(u, <<"g", "o", "o", "d">>) THEN StrV("Fair")
    ELSE IF \E w \in {<<"p", "o", "o", "r">>, <<"d", "e", "a", "d">>, <<"f", "a", "i", "r">>} : Contains(u, w)
      THEN StrV("Poor")
    ELSE NoneV

\* condition_to_health_3cat of 1995 and status_to_health_3cat of 2005
condition_to_health_3cat(s) ==
  LET u == Lower(Strip(s)) IN
    IF u \in {<<"e", "x", "c", "e", "l", "l", "e", "n", "t">>, <<"e">>} THEN StrV("Good")
    ELSE IF u \in {<<"g", "o", "o", "d">>, <<"g">>} THEN StrV("Fair")
    ELSE IF u \in {<<"p", "o", "o", "r">>, <<"p">>, <<"d", "e", "a", "d">>, <<"d">>, <<"f", "a", "i", "r">>, <<"f">>} THEN StrV("Poor")
    ELSE NoneV

status_to_health_3cat(s) ==
  LET u == Lower(Strip(s)) IN
    IF u \in {<<"e", "x", "c", "e", "l", "l", "e", "n", "t">>, <<"e">>} THEN StrV("Good")
    ELSE IF u \in {<<"g", "o", "o", "d">>, <<"g">>} THEN StrV("Fair")
    ELSE IF u \in {<<"p", "o", "o", "r">>, <<"p">>, <<"d", "e", "a", "d">>, <<"d">>, <<"f", "a", "i", "r">>, <<"f">>} THEN StrV("Poor")
    ELSE NoneV

\* ------------------------------------------------------------------- 2015
health_to_health_3cat(s) ==
  LET u == Lower(Strip(s)) IN
    IF u = <<"g", "o", "o", "d">> THEN StrV("Good")
    ELSE IF u = <<"f", "a", "i", "r">> THEN StrV("Fair")
    ELSE IF u = <<"p", "o", "o", "r">> THEN StrV("Poor")
    ELSE NoneV

\* datetime.strptime(s, fmt).  A format is the sequence of its directives and
\* literal characters.  The regular expression of each directive, with its
\* alternatives in the order the regex tries them, as the lengths that match
\* at position pos (0-based):
\*   %Y \d\d\d\d    %m 1[0-2]|0[1-9]|[1-9]    %y \d\d
\*   %d 3[01]|[12]\d|0[1-9]|[1-9]| [1-9]
CharAt(s, k) == IF k >= 1 /\ k <= Len(s) THEN s[k] ELSE ""
If(cond, len) == IF cond THEN <<len>> ELSE <<>>
NonZeroDigit(c) == IsDigit(c) /\ c # "0"

Cands(tok, s, pos) ==
  LET c1 == CharAt(s, pos + 1)
      c2 == CharAt(s, pos + 2)
  IN CASE tok = "%Y" ->
            If(\A k \in 1..4 : IsDigit(CharAt(s, pos + k)), 4)
       [] tok = "%m" ->
            If(c1 = "1" /\ c2 \in {"0", "1", "2"}, 2)
              \o If(c1 = "0" /\ NonZeroDigit(c2), 2)
              \o If(NonZeroDigit(c1), 1)
       [] tok = "%d" ->
            If(c1 = "3" /\ c2 \in {"0", "1"}, 2)
              \o If(c1 \in {"1", "2"} /\ IsDigit(c2), 2)
              \o If(c1 = "0" /\ NonZeroDigit(c2), 2)
              \o If(NonZeroDigit(c1), 1)
              \o If(c1 = " " /\ NonZeroDigit(c2), 2)
       [] tok = "%y" -> If(IsDigit(c1) /\ IsDigit(c2), 2)
       [] OTHER -> If(c1 = tok, 1)

\* The first match of the format's regex at the start of s, by backtracking
\* in the order of the alternatives: the lengths matched, one per directive.
RECURSIVE MatchFrom(_, _, _, _), TryCands(_, _, _, _, _)
MatchFrom(fmt, i, s, pos) ==
  IF i > Len(fmt) THEN [ok |-> TRUE, lens |-> <<>>]
  ELSE TryCands(fmt, i, s, pos, Cands(fmt[i], s, pos))
TryCands(fmt, i, s, pos, cands) ==
  IF cands = <<>> THEN [ok |-> FALSE, lens |-> <<>>]
  ELSE LET r == MatchFrom(fmt, i + 1, s, pos + Head(cands)) IN
         IF r.ok THEN [ok |-> TRUE, lens |-> <<Head(cands)>> \o r.lens]
         ELSE TryCands(fmt, i, s, pos, Tail(cands))

RECURSIVE SumTo(_, _)
SumTo(lens, n) == IF n = 0 THEN 0 ELSE lens[n] + SumTo(lens, n - 1)

IsLeap(y) == y % 4 = 0 /\ (y % 100 # 0 \/ y % 400 = 0)
DaysIn(y, m) ==
  IF m = 2 THEN (IF IsLeap(y) THEN 29 ELSE 28)
  ELSE IF m \in {4, 6, 9, 11} THEN 30 ELSE 31

\* The date parsed, or ok = FALSE where strptime raises ValueError: no match,
\* unconverted data remaining, or a day or year out of range.
Strptime(s, fmt) ==
  LET r == MatchFrom(fmt, 1, s, 0)
      Field(tok, dflt) ==
        IF \E i \in 1..Len(fmt) : fmt[i] = tok
          THEN LET i == CHOOSE i \in 1..Len(fmt) : fmt[i] = tok
                   from == SumTo(r.lens, i - 1)
                   NotBlank(c) == c # " "
               IN NatOf(SelectSeq(SubSeq(s, from + 1, from + r.lens[i]), NotBlank))
          ELSE dflt
      yy == Field("%y", 0)
      year == IF \E i \in 1..Len(fmt) : fmt[i] = "%y"
                THEN (IF yy < 69 THEN 2000 + yy ELSE 1900 + yy)
                ELSE Field("%Y", 1900)
      month == Field("%m", 1)
      day == Field("%d", 1)
  IN IF r.ok /\ SumTo(r.lens, Len(r.lens)) = Len(s)
          /\ year >= 1 /\ day <= DaysIn(year, month)
       THEN [ok |-> TRUE, y |-> year, m |-> month, d |-> day]
       ELSE [ok |-> FALSE, y |-> 0, m |-> 0, d |-> 0]

\* The decimal digits of n, zero-padded to at least `width` characters.
RECURSIVE Digits(_, _)
Digits(n, width) ==
  IF n < 10 /\ width <= 1 THEN <<Digit[n + 1]>>
  ELSE Digits(n \div 10, width - 1) \o <<Digit[(n % 10) + 1]>>

\* date.isoformat()
IsoFormat(dt) == Digits(dt.y, 4) \o <<"-">> \o Digits(dt.m, 2) \o <<"-">> \o Digits(dt.d, 2)

DATE_FORMATS ==
  << <<"%Y", "-", "%m", "-", "%d">>,
     <<"%m", "/", "%d", "/", "%Y">>,
     <<"%m", "/", "%d", "/", "%y">>,
     <<"%m", "-", "%d", "-", "%Y">>,
     <<"%m", "-", "%d", "-", "%y">> >>

\* for fmt in (...): try: return strptime(t, fmt).date().isoformat()
RECURSIVE FirstFormat(_, _)
FirstFormat(u, k) ==
  IF k > Len(DATE_FORMATS) THEN NoneV
  ELSE IF Strptime(u, DATE_FORMATS[k]).ok
    THEN TextV(IsoFormat(Strptime(u, DATE_FORMATS[k])))
    ELSE FirstFormat(u, k + 1)

\* for fmt in (...) with the day before the month
RECURSIVE FirstFormat_DayFirst(_, _)
FirstFormat_DayFirst(u, k) ==
  LET Swap(tok) == IF tok = "%m" THEN "%d" ELSE IF tok = "%d" THEN "%m" ELSE tok
      fmt == [j \in 1..Len(DATE_FORMATS[k]) |-> Swap(DATE_FORMATS[k][j])]
  IN IF k > Len(DATE_FORMATS) THEN NoneV
     ELSE IF k > 1 /\ Strptime(u, fmt).ok THEN TextV(IsoFormat(Strptime(u, fmt)))
     ELSE IF k = 1 /\ Strptime(u, DATE_FORMATS[1]).ok
       THEN TextV(IsoFormat(Strptime(u, DATE_FORMATS[1])))
     ELSE FirstFormat_DayFirst(u, k + 1)

to_iso_date_DayFirst(s) ==
  LET u == Strip(s) IN
    IF u = <<>> \/ Lower(u) \in {<<"n", "a">>, <<"n", "/", "a">>, <<"n", "u", "l", "l">>} THEN NoneV
    ELSE FirstFormat_DayFirst(u, 1)

to_iso_date(s) ==
  LET u == Strip(s) IN
    IF u = <<>> \/ Lower(u) \in {<<"n", "a">>, <<"n", "/", "a">>, <<"n", "u", "l", "l">>} THEN NoneV
    ELSE FirstFormat(u, 1)

\* ------------------------------------------------------------ air quality
BOROUGH_MAP_SECONDARY ==
  << <<<<"w", "a", "s", "h", "i", "n", "g", "t", "o", "n", " ", "h", "e", "i", "g", "h", "t", "s">>, "Manhattan">>,
     <<<<"s", "t", "u", "y", "v", "e", "s", "a", "n", "t", " ", "t", "o", "w", "n">>, "Manhattan">>,
     <<<<"t", "u", "r", "t", "l", "e", " ", "b", "a", "y">>, "Manhattan">>,
     <<<<"n", "e", "w", " ", "y", "o", "r", "k", " ", "c", "i", "t", "y">>, "Manhattan">>,
     <<<<"t", "h", "r", "o", "g", "s", " ", "n", "e", "c", "k">>, "Bronx">>,
     <<<<"c", "o", "-", "o", "p", " ", "c", "i", "t", "y">>, "Bronx">>,
     <<<<"h", "u", "n", "t", "s", " ", "p", "o", "i", "n", "t">>, "Bronx">>,
     <<<<"l", "o", "n", "g", "w", "o", "o", "d">>, "Bronx">>,
     <<<<"d", "o", "w", "n", "t", "o", "w", "n">>, "Brooklyn">>,
     <<<<"h", "e", "i", "g", "h", "t", "s">>, "Brooklyn">>,
     <<<<"s", "l", "o", "p", "e">>, "Brooklyn">>,
     <<<<"c", "a", "r", "r", "o", "l", "l", " ", "g", "a", "r", "d", "e", "n", "s">>, "Brooklyn">>,
     <<<<"p", "a", "r", "k", " ", "s", "l", "o", "p", "e">>, "Brooklyn">>,
     <<<<"e", "a", "s", "t", " ", "n", "e", "w", " ", "y", "o", "r", "k">>, "Brooklyn">>,
     <<<<"g", "r", "e", "e", "n", "p", "o", "i", "n", "t">>, "Brooklyn">>,
     <<<<"w", "i", "l", "l", "i", "a", "m", "s", "b", "u", "r", "g">>, "Brooklyn">>,
     <<<<"r", "o", "c", "k", "a", "w", "a", "y">>, "Queens">>,
     <<<<"b", "r", "o", "a", "d", " ", "c", "h", "a", "n", "n", "e", "l">>, "Queens">>,
     <<<<"j", "a", "c", "k", "s", "o", "n", " ", "h", "e", "i", "g", "h", "t", "s">>, "Queens">>,
     <<<<"f", "r", "e", "s", "h", " ", "m", "e", "a", "d", "o", "w", "s">>, "Queens">>,
     <<<<"h", "i", "l", "l", "c", "r", "e", "s", "t">>, "Queens">>,
     <<<<"e", "a", "s", "t", " ", "n", "e", "w", " ", "y", "o", "r", "k", " ", "a", "n", "d", " ", "s", "t", "a", "r", "r", "e", "t", "t", " ", "c", "i", "t", "y">>, "Brooklyn">>,
     <<<<"r", "o", "c", "k", "a", "w", "a", "y", "s">>, "Queens">>,
     <<<<"s", "o", "u", "t", "h", "e", "r", "n", " ", "s", "i">>, "Staten Island">>,
     <<<<"n", "o", "r", "t", "h", "e", "r", "n", " ", "s", "i">>, "Staten Island">> >>

BRONX_KEYWORDS ==
  << <<"b", "r", "o", "n", "x">>,
     <<"f", "o", "r", "d", "h", "a", "m">>,
     <<"t", "r", "e", "m", "o", "n", "t">>,
     <<"c", "r", "o", "t", "o", "n", "a">>,
     <<"m", "o", "r", "r", "i", "s">>,
     <<"m", "o", "t", "t", " ", "h", "a", "v", "e", "n">>,
     <<"p", "e", "l", "h", "a", "m">>,
     <<"r", "i", "v", "e", "r", "d", "a", "l", "e">>,
     <<"s", "o", "u", "n", "d", "v", "i", "e", "w">>,
     <<"w", "i", "l", "l", "i", "a", "m", "s", "b", "r", "i", "d", "g", "e">>,
     <<"c", "o", "n", "c", "o", "u", "r", "s", "e">>,
     <<"p", "a", "r", "k", "c", "h", "e", "s", "t", "e", "r">>,
     <<"h", "i", "g", "h", "b", "r", "i", "d", "g", "e">> >>

BROOKLYN_KEYWORDS ==
  << <<"b", "r", "o", "o", "k", "l", "y", "n">>,
     <<"f", "l", "a", "t", "b", "u", "s", "h">>,
     <<"b", "u", "s", "h", "w", "i", "c", "k">>,
     <<"b", "e", "d", "f", "o", "r", "d">>,
     <<"c", "r", "o", "w", "n", " ", "h", "e", "i", "g", "h", "t", "s">>,
     <<"b", "o", "r", "o", "u", "g", "h", " ", "p", "a", "r", "k">>,
     <<"b", "e", "n", "s", "o", "n", "h", "u", "r", "s", "t">>,
     <<"b", "a", "y", " ", "r", "i", "d", "g", "e">>,
     <<"b", "r", "o", "w", "n", "s", "v", "i", "l", "l", "e">>,
     <<"c", "a", "n", "a", "r", "s", "i", "e">>,
     <<"s", "h", "e", "e", "p", "s", "h", "e", "a", "d">>,
     <<"c", "o", "n", "e", "y">>,
     <<"f", "l", "a", "t", "l", "a", "n", "d", "s">>,
     <<"m", "i", "d", "w", "o", "o", "d">>,
     <<"p", "r", "o", "s", "p", "e", "c", "t">>,
     <<"s", "u", "n", "s", "e", "t", " ", "p", "a", "r", "k">> >>

QUEENS_KEYWORDS ==
  << <<"q", "u", "e", "e", "n", "s">>,
     <<"j", "a", "m", "a", "i", "c", "a">>,
     <<"a", "s", "t", "o", "r", "i", "a">>,
     <<"f", "l", "u", "s", "h", "i", "n", "g">>,
     <<"e", "l", "m", "h", "u", "r", "s", "t">>,
     <<"f", "o", "r", "e", "s", "t", " ", "h", "i", "l", "l", "s">>,
     <<"c", "o", "r", "o", "n", "a">>,
     <<"f", "a", "r", " ", "r", "o", "c", "k", "a", "w", "a", "y">>,
     <<"r", "i", "d", "g", "e", "w", "o", "o", "d">>,
     <<"k", "e", "w", " ", "g", "a", "r", "d", "e", "n", "s">>,
     <<"b", "a", "y", "s", "i", "d", "e">>,
     <<"w", "o", "o", "d", "s", "i", "d", "e">>,
     <<"r", "e", "g", "o", " ", "p", "a", "r", "k">>,
     <<"l", "i", "t", "t", "l", "e", " ", "n", "e", "c", "k">>,
     <<"h", "o", "w", "a", "r", "d", " ", "b", "e", "a", "c", "h">>,
     <<"o", "z", "o", "n", "e", " ", "p", "a", "r", "k">> >>

MANHATTAN_KEYWORDS ==
  << <<"m", "a", "n", "h", "a", "t", "t", "a", "n">>,
     <<"h", "a", "r", "l", "e", "m">>,
     <<"u", "p", "p", "e", "r", " ", "w", "e", "s", "t", " ", "s", "i", "d", "e">>,
     <<"u", "p", "p", "e", "r", " ", "e", "a", "s", "t", " ", "s", "i", "d", "e">>,
     <<"c", "h", "e", "l", "s", "e", "a">>,
     <<"s", "o", "h", "o">>,
     <<"v", "i", "l", "l", "a", "g", "e">>,
     <<"m", "i", "d", "t", "o", "w", "n">>,
     <<"g", "r", "a", "m", "e", "r", "c", "y">>,
     <<"f", "i", "n", "a", "n", "c", "i", "a", "l", " ", "d", "i", "s", "t", "r", "i", "c", "t">>,
     <<"t", "r", "i", "b", "e", "c", "a">>,
     <<"m", "o", "r", "n", "i", "n", "g", "s", "i", "d", "e">>,
     <<"b", "a", "t", "t", "e", "r", "y", " ", "p", "a", "r", "k">>,
     <<"i", "n", "w", "o", "o", "d">>,
     <<"l", "o", "w", "e", "r", " ", "e", "a", "s", "t", " ", "s", "i", "d", "e">> >>

STATEN_ISLAND_KEYWORDS ==
  << <<"s", "t", "a", "t", "e", "n">>,
     <<"t", "o", "t", "t", "e", "n", "v", "i", "l", "l", "e">>,
     <<"s", "t", ".", " ", "g", "e", "o", "r", "g", "e">>,
     <<"s", "t", "a", "t", "e", "n", " ", "i", "s", "l", "a", "n", "d">>,
     <<"s", "t", "a", "p", "l", "e", "t", "o", "n">>,
     <<"w", "i", "l", "l", "o", "w", "b", "r", "o", "o", "k">>,
     <<"g", "r", "e", "a", "t", " ", "k", "i", "l", "l", "s">>,
     <<"n", "e", "w", " ", "d", "o", "r", "p">>,
     <<"r", "i", "c", "h", "m", "o", "n", "d">>,
     <<"s", "o", "u", "t", "h", " ", "b", "e", "a", "c", "h">> >>

AnyIn(n, keys) == \E k \in 1..Len(keys) : Contains(n, keys[k])

\* for key, borough in BOROUGH_MAP_SECONDARY.items(): if key in n: return borough
RECURSIVE FirstException(_, _)
FirstException(n, k) ==
  IF k > Len(BOROUGH_MAP_SECONDARY) THEN ""
  ELSE IF Contains(n, BOROUGH_MAP_SECONDARY[k][1]) THEN BOROUGH_MAP_SECONDARY[k][2]
  ELSE FirstException(n, k + 1)

infer_borough_KeywordsFirst(name) ==
  IF Strip(name) = <<>> THEN StrV("Unknown")
  ELSE LET n == Strip(Lower(name)) IN
    IF AnyIn(n, BRONX_KEYWORDS) THEN StrV("Bronx")
    ELSE IF AnyIn(n, BROOKLYN_KEYWORDS) THEN StrV("Brooklyn")
    ELSE IF AnyIn(n, QUEENS_KEYWORDS) THEN StrV("Queens")
    ELSE IF AnyIn(n, MANHATTAN_KEYWORDS) THEN StrV("Manhattan")
    ELSE IF AnyIn(n, STATEN_ISLAND_KEYWORDS) THEN StrV("Staten Island")
    ELSE IF FirstException(n, 1) # "" THEN StrV(FirstException(n, 1))
    ELSE StrV("Unknown")

infer_borough(name) ==
  IF Strip(name) = <<>> THEN StrV("Unknown")
  ELSE LET n == Strip(Lower(name)) IN
    IF FirstException(n, 1) # "" THEN StrV(FirstException(n, 1))
    ELSE IF AnyIn(n, BRONX_KEYWORDS) THEN StrV("Bronx")
    ELSE IF AnyIn(n, BROOKLYN_KEYWORDS) THEN StrV("Brooklyn")
    ELSE IF AnyIn(n, QUEENS_KEYWORDS) THEN StrV("Queens")
    ELSE IF AnyIn(n, MANHATTAN_KEYWORDS) THEN StrV("Manhattan")
    ELSE IF AnyIn(n, STATEN_ISLAND_KEYWORDS) THEN StrV("Staten Island")
    ELSE StrV("Unknown")

infer_geo_level_NoBlankCheck(name) ==
  LET clean == Strip(Lower(name)) IN
    IF clean \in {<<"b", "r", "o", "n", "x">>, <<"b", "r", "o", "o", "k", "l", "y", "n">>, <<"q", "u", "e", "e", "n", "s">>, <<"m", "a", "n", "h", "a", "t", "t", "a", "n">>, <<"s", "t", "a", "t", "e", "n", " ", "i", "s", "l", "a", "n", "d">>}
      THEN StrV("Borough")
    ELSE StrV("Neighborhood")

infer_geo_level(name) ==
  IF Strip(name) = <<>> THEN StrV("Unknown")
  ELSE LET clean == Strip(Lower(name)) IN
    IF clean \in {<<"b", "r", "o", "n", "x">>, <<"b", "r", "o", "o", "k", "l", "y", "n">>, <<"q", "u", "e", "e", "n", "s">>, <<"m", "a", "n", "h", "a", "t", "t", "a", "n">>, <<"s", "t", "a", "t", "e", "n", " ", "i", "s", "l", "a", "n", "d">>}
      THEN StrV("Borough")
    ELSE StrV("Neighborhood")

\* --------------------------------------------------------------- berkeley
\* MONTH_BASELINES, in hundredths of a degree
MONTH_BASELINES ==
  <<-1190, -979, -583, 98, 804, 1345, 1623, 1504, 1023, 367, -375, -964>>

\* to_float: try: float(x) except (TypeError, ValueError): None
to_float(x) == FloatOrNone(x)

\* abs_month_temp(row) for a row that df.dropna(subset=["year", "month"]) kept:
\* month is a float that is not NaN, anomaly a float or None.  The sum of the
\* baseline and the anomaly is kept as the pair; np.nan where there is none.
abs_month_temp(month, anomaly) ==
  LET m == PyIntOfFloat(month) IN
    IF m.t = "raise" THEN m
    ELSE IF anomaly.t = "float" /\ anomaly.k # "nan" /\ m.v \in 1..Len(MONTH_BASELINES)
      THEN [t |-> "float", k |-> anomaly.k, base |-> MONTH_BASELINES[m.v], plus |-> anomaly]
    ELSE FloatV("nan", FALSE, 0, 0)

\* ---------------------------------------------------------------- weather
\* f_to_c(f) for f a float or None: (float(f) - 32) * 5.0 / 9.0, kept as the
\* expression over f; inf and nan propagate; a bare except returns None.
f_to_c(f) ==
  IF f.t # "float" THEN NoneV
  ELSE [t |-> "float", k |-> f.k, celsius_of |-> f]

\* to_date_month: strptime(s.strip(), "%Y-%m").strftime("%Y-%m-01").  strftime
\* pads %Y to four digits on some C libraries and not on others (glibc).
to_date_month(s, padYear) ==
  LET dt == Strptime(Strip(s), <<"%Y", "-", "%m">>) IN
    IF dt.ok
      THEN TextV(Digits(dt.y, IF padYear THEN 4 ELSE 1) \o <<"-">> \o Digits(dt.m, 2)
                   \o <<"-", "0", "1">>)
      ELSE NoneV

\* A row of the weather frame through the two filters before batching:
\* df[df["date_month"].notnull()], then df[df["station_id"].notnull()].
\* The station cell is a str (read with dtype=str, keep_default_na=False),
\* or NaN where the line of the file is too short to have the field.
weather_row(station, date, padYear) ==
  LET date_month == to_date_month(date, padYear) IN
    IF date_month.t = "none" THEN [t |-> "dropped"]
    ELSE IF station.t = "none" THEN [t |-> "dropped"]
    ELSE [t |-> "row", station_id |-> station.v, date_month |-> date_month.v]

clean_numeric(val) ==
  LET u == Strip(val) IN
    IF u = <<>> \/ Lower(u) \in {<<"n", "a", "n">>, <<"n", "a">>, <<"n", "u", "l", "l">>} THEN NoneV
    ELSE FloatOrNone(u)

\* lambda x: int(clean_numeric(x)) if clean_numeric(x) is not None else None
int_clean_numeric(x) ==
  IF clean_numeric(x).t # "none" THEN PyIntOfFloat(clean_numeric(x)) ELSE NoneV

\* ------------------------------------------------------------------ state
VARIABLES
  ing,         \* the script that runs
  BATCH_SIZE,  \* its batch size
  srcExists,   \* CSV_PATH.exists(); for weather, whether CSV_DIR exists
  files,       \* the input files: [name, miss, rows, keys]
  table,       \* the committed rows of TABLE
  txn,         \* the rows inserted by the open transaction, not yet committed
  pc,          \* where main() is
  fi,          \* the file being loaded (index into files)
  records,     \* the records prepared from that file
  total,       \* len(records)
  batches,     \* math.ceil(total / BATCH_SIZE)
  b,           \* the loop variable of `for b in range(batches)`
  start,       \* the running start of the start/end loop form
  cnx,         \* the connection: "unbound", "open", "closed"
  err,         \* the exception that is propagating, "none" when there is none
  sent,        \* history: every batch handed to executemany, [file, rows]
  old,         \* history: how many rows the table held before the run
  verified,    \* history: whether the verification query has been executed
  diag,        \* history: what the `except mysql.connector.Error` handler printed
  attempt,     \* how many times the script has been started again
  runs,        \* history: how many of the earlier runs ended in Done
  firstTable,  \* history: the table as the first run that ended in Done left it
  other,       \* the state of a second process running the script, if any
  cell,        \* the text of the cell a converter is applied to
  conv,        \* the converter applied to it, "none" before
  args,        \* the further arguments of that call
  out          \* what the converter returned or raised

runVars == <<ing, BATCH_SIZE, srcExists, files, table, txn, pc, fi, records, total,
             batches, b, start, cnx, err, sent, old, verified, diag,
             attempt, runs, firstTable, other>>
convVars == <<cell, conv, args, out>>
vars == <<runVars, convVars>>

\* What a run never changes: its input, and the converter state.
input == <<ing, BATCH_SIZE, srcExists, files, old, convVars, attempt, runs, firstTable,
           other>>
locals == <<fi, records, total, batches, b, start>>

\* The keys of the rows of a file whose rows all differ, from the rows of the
\* other file of the directory too.
DistinctKeys(name, n) ==
  [r \in 1..n |-> IF name = WeatherFiles[2] THEN MaxRows + r ELSE r]

\* There is no second process.
NoProcess == [pc |-> "none"]

FileOf(i, name) ==
  {[name |-> name, miss |-> m, rows |-> n, keys |-> DistinctKeys(name, n)] :
     m \in MissChoices(i), n \in 0..MaxRows}

\* The inputs a run can meet.  An absent source holds no file; the weather
\* directory holds a prefix of WeatherFiles.
InputFiles(i, exists) ==
  IF ~exists THEN {<<>>}
  ELSE IF i = "weather"
    THEN UNION {[1..n -> UNION {FileOf(i, WeatherFiles[k]) : k \in 1..Len(WeatherFiles)}]
                  : n \in 0..Len(WeatherFiles)}
    ELSE {<<f>> : f \in FileOf(i, CsvName(i))}

WeatherOrdered(fs) == \A k \in 1..Len(fs) : fs[k].name = WeatherFiles[k]

Init ==
  /\ ing \in Ingesters
  /\ BATCH_SIZE \in 1..MaxBatch
  /\ srcExists \in BOOLEAN
  /\ files \in InputFiles(ing, srcExists)
  /\ ing = "weather" => WeatherOrdered(files)
  /\ old \in 0..MaxOld
  /\ table = [k \in 1..old |-> OldRow(ing)]
  /\ txn = <<>>
  /\ pc = "start"
  /\ fi = 1
  /\ records = <<>>
  /\ total = 0
  /\ batches = 0
  /\ b = 0
  /\ start = 0
  /\ cnx = "unbound"
  /\ err = "none"
  /\ sent = <<>>
  /\ verified = FALSE
  /\ diag = "none"
  /\ attempt = 0
  /\ runs = 0
  /\ firstTable = <<>>
  /\ other = NoProcess
  /\ cell = <<>>
  /\ conv = "none"
  /\ args = <<>>
  /\ out = NoneV

\* The slice of the current iteration, in the two loop forms.
SliceStart == IF ing \in IndexForm THEN b * BATCH_SIZE ELSE start
SliceEnd ==
  IF ing \in IndexForm THEN Min((b + 1) * BATCH_SIZE, total)
  ELSE Min(start + BATCH_SIZE, total)
Batch == Slice(records, SliceStart, SliceEnd)

\* ---------------------------------------------------------------- actions
\* if not CSV_PATH.exists(): raise FileNotFoundError
\* weather: csv_files = load_csv_files(); if not csv_files: return
CheckSource ==
  /\ pc = "start"
  /\ IF ing = "weather"
       THEN /\ pc' = IF files = <<>> THEN "done" ELSE "connect"
            /\ err' = err
       ELSE IF srcExists
         THEN pc' = "read" /\ err' = err
         ELSE pc' = "failed" /\ err' = "FileNotFoundError"
  /\ UNCHANGED <<input, diag, locals, table, txn, cnx, sent, verified>>

\* Single-file scripts: read_csv, normalize the header, validate, transform,
\* records = df.values.tolist(), total = len(records).  All before connect.
ReadFile ==
  /\ pc = "read"
  /\ LET outcome == ReadOutcome(ing, files[1].miss) IN
       IF outcome = "ok"
         THEN /\ records' = Records(ing, files[1])
              /\ total' = Len(Records(ing, files[1]))
              /\ pc' = "connect"
              /\ err' = err
         ELSE /\ pc' = "failed"
              /\ err' = outcome
              /\ UNCHANGED <<records, total>>
  /\ UNCHANGED <<input, diag, fi, batches, b, start, table, txn, cnx, sent, verified>>

\* What mysql.connector.connect raises: errno ER_ACCESS_DENIED_ERROR,
\* ER_BAD_DB_ERROR, or another mysql.connector.Error (host unreachable, ...).
ConnectErrors == {"ER_ACCESS_DENIED_ERROR", "ER_BAD_DB_ERROR", "ConnectError"}

\* The exceptions that are a mysql.connector.Error.
MySQLErrors == ConnectErrors \cup {"BatchError", "VerifyError"}

\* What `except mysql.connector.Error as err` prints before it re-raises.
Diagnostic(i, e) ==
  IF i \in {"berkeley", "weather"} THEN "MySQL error: <err>"
  ELSE IF e = "ER_ACCESS_DENIED_ERROR"
    THEN (IF i = "heat" THEN "Something is wrong with your user name or password"
          ELSE "Access denied: check user/password.")
  ELSE IF e = "ER_BAD_DB_ERROR"
    THEN (IF i = "heat" THEN "Database does not exist" ELSE "Database does not exist.")
  ELSE "MySQL error: <err>"

\* cnx = mysql.connector.connect(...); cur = cnx.cursor()
\* then `if total == 0: print("Nothing to insert.")`, else the loop begins.
Connect ==
  /\ pc = "connect"
  /\ \/ /\ cnx' = "open"
        /\ err' = err
        /\ IF ing = "weather"
             THEN pc' = "file" /\ UNCHANGED <<batches, b, start>>
             ELSE IF total = 0
               THEN pc' = "verify" /\ UNCHANGED <<batches, b, start>>
               ELSE /\ batches' = Ceil_Batches(total, BATCH_SIZE)
                    /\ start' = 0
                    /\ b' = 0
                    /\ pc' = "loop"
     \/ /\ err' \in ConnectErrors
        /\ pc' = "finally"
        /\ UNCHANGED <<cnx, batches, b, start>>
  /\ UNCHANGED <<input, diag, fi, records, total, table, txn, sent, verified>>

\* weather, inside the connection: for csv_path in csv_files: read, check the
\* required columns, transform, records, total, batches, start = 0.
LoadFile ==
  /\ pc = "file"
  /\ IF fi > Len(files)
       THEN /\ pc' = "finally"
            /\ UNCHANGED <<locals, err>>
       ELSE LET outcome == ReadOutcome(ing, files[fi].miss) IN
         IF outcome = "ok"
           THEN /\ records' = Records(ing, files[fi])
                /\ total' = Len(Records(ing, files[fi]))
                /\ batches' = Ceil_Batches(Len(Records(ing, files[fi])), BATCH_SIZE)
                /\ start' = 0
                /\ b' = 0
                /\ pc' = "loop"
                /\ UNCHANGED <<fi, err>>
           ELSE /\ pc' = "finally"
                /\ err' = outcome
                /\ UNCHANGED locals
  /\ UNCHANGED <<input, diag, table, txn, cnx, sent, verified>>

\* cur.executemany(insert_sql, batch): every row of the batch is inserted in
\* the open transaction, or the statement raises after some of them.
ExecuteBatch ==
  /\ pc = "loop"
  /\ b < batches
  /\ sent' = Append(sent, [file |-> fi, rows |-> Batch])
  /\ \/ txn' = Batch /\ pc' = "commit"
     \/ \E n \in 0..(Len(Batch) - 1) :
          txn' = SubSeq(Batch, 1, n) /\ pc' = "rollback"
  /\ UNCHANGED <<input, diag, locals, table, cnx, err, verified>>

\* cnx.commit(), then `start = end` and the next iteration; or commit raises.
CommitBatch ==
  /\ pc = "commit"
  /\ \/ /\ table' = Stored(ing, table, txn)
        /\ txn' = <<>>
        /\ start' = IF ing \in IndexForm THEN start ELSE SliceEnd
        /\ b' = b + 1
        /\ pc' = "loop"
     \/ /\ pc' = "rollback"
        /\ UNCHANGED <<table, txn, start, b>>
  /\ UNCHANGED <<input, diag, fi, records, total, batches, cnx, err, sent, verified>>

RollbackBatch_Continue ==
  /\ pc = "rollback"
  /\ txn' = <<>>
  /\ start' = IF ing \in IndexForm THEN start ELSE SliceEnd
  /\ b' = b + 1
  /\ pc' = "loop"
  /\ UNCHANGED <<input, diag, fi, records, total, batches, table, cnx, err, sent, verified>>

RollbackBatch_Commit ==
  /\ pc = "rollback"
  /\ table' = table \o txn
  /\ txn' = <<>>
  /\ err' = "BatchError"
  /\ pc' = "finally"
  /\ UNCHANGED <<input, diag, locals, cnx, sent, verified>>

RollbackBatch_Retry ==
  /\ pc = "rollback"
  /\ txn' = <<>>
  /\ pc' = "loop"
  /\ UNCHANGED <<input, diag, locals, table, cnx, err, sent, verified>>

\* except Exception: cnx.rollback(); print(...); raise
RollbackBatch ==
  /\ pc = "rollback"
  /\ txn' = <<>>
  /\ err' = "BatchError"
  /\ pc' = "finally"
  /\ UNCHANGED <<input, diag, locals, table, cnx, sent, verified>>

\* The for loop is exhausted: on to the verification, or to the next file.
EndLoop ==
  /\ pc = "loop"
  /\ b >= batches
  /\ IF ing = "weather"
       THEN pc' = "file" /\ fi' = fi + 1
       ELSE pc' = "verify" /\ fi' = fi
  /\ UNCHANGED <<input, diag, records, total, batches, b, start, table, txn, cnx, err,
                 sent, verified>>

\* cur.execute("SELECT COUNT(*) ..."), fetchone, print (and the sanity query).
\* berkeley formats MAX(abs_monthly_temp) with :.2f, which is None for an
\* empty table.
Verify ==
  /\ pc = "verify"
  /\ verified' = TRUE
  /\ pc' = "finally"
  /\ \/ err' = IF ing = "berkeley" /\ table = <<>> THEN "TypeError" ELSE err
     \/ err' = "VerifyError"
  /\ UNCHANGED <<input, diag, locals, table, txn, cnx, sent>>

Finally_CloseErrorEscapes ==
  /\ pc = "finally"
  /\ diag' = IF err \in MySQLErrors THEN Diagnostic(ing, err) ELSE diag
  /\ txn' = <<>>
  /\ \/ /\ cnx' = IF cnx = "open" THEN "closed" ELSE cnx
        /\ err' = IF cnx = "unbound" THEN "UnboundLocalError" ELSE err
     \/ /\ cnx = "open"
        /\ cnx' = "lost"
        /\ err' = "CloseError"
  /\ pc' = IF err' = "none" THEN "done" ELSE "failed"
  /\ UNCHANGED <<input, locals, table, sent, verified>>

\* except mysql.connector.Error as err: print the diagnostic; raise.
\* finally: cur.close(); cnx.close(), each in try/except: pass.  An open
\* connection is closed, or close() raises and the exception is dropped
\* ("lost": the connection to the server was gone already); with cnx unbound
\* cnx.close() raises UnboundLocalError, dropped as well.  The exception in
\* flight, if any, then leaves main().
Finally ==
  /\ pc = "finally"
  /\ diag' = IF err \in MySQLErrors THEN Diagnostic(ing, err) ELSE diag
  /\ cnx' \in IF cnx = "open" THEN {"closed", "lost"} ELSE {cnx}
  /\ txn' = <<>>
  /\ pc' = IF err = "none" THEN "done" ELSE "failed"
  /\ UNCHANGED <<input, locals, table, err, sent, verified>>

Next ==
  \/ CheckSource
  \/ ReadFile
  \/ Connect
  \/ LoadFile
  \/ ExecuteBatch
  \/ CommitBatch
  \/ RollbackBatch
  \/ EndLoop
  \/ Verify
  \/ Finally

Spec == Init /\ [][Next]_vars

\* ------------------------------------------- the weather loader run again
\* most times the script is started again
MaxRuns == 2
\* the keys (station, month) the rows of the weather files are drawn from
MaxKeys == 2

\* A weather file with every column, whose rows have any of the keys.
KeyedFiles(name) ==
  UNION {{[name |-> name, miss |-> "none", rows |-> n, keys |-> ks] :
            ks \in [1..n -> 1..MaxKeys]} : n \in 0..MaxRows}

\* A row an earlier load stored under key k.
StoredRow(k) ==
  [c \in INSERT_COLUMNS_WEATHER |->
     IF c = "file_name" THEN "earlier load" ELSE IF c \in NATURAL_KEY THEN k ELSE 0]

InitUpsert ==
  /\ ing = "weather"
  /\ BATCH_SIZE \in 1..MaxBatch
  /\ srcExists = TRUE
  /\ files \in {<<f>> : f \in KeyedFiles(WeatherFiles[1])}
               \cup {<<f, g>> : f \in KeyedFiles(WeatherFiles[1]),
                                g \in KeyedFiles(WeatherFiles[2])}
  /\ old \in 0..MaxOld
  /\ table = [k \in 1..old |-> StoredRow(k)]
  /\ txn = <<>>
  /\ pc = "start"
  /\ fi = 1
  /\ records = <<>>
  /\ total = 0
  /\ batches = 0
  /\ b = 0
  /\ start = 0
  /\ cnx = "unbound"
  /\ err = "none"
  /\ sent = <<>>
  /\ verified = FALSE
  /\ diag = "none"
  /\ attempt = 0
  /\ runs = 0
  /\ firstTable = <<>>
  /\ other = NoProcess
  /\ cell = <<>>
  /\ conv = "none"
  /\ args = <<>>
  /\ out = NoneV

\* if __name__ == "__main__": main(), once more over the same directory and
\* the table as the run before left it.
Rerun ==
  /\ pc \in {"done", "failed"}
  /\ attempt < MaxRuns
  /\ attempt' = attempt + 1
  /\ runs' = IF pc = "done" THEN runs + 1 ELSE runs
  /\ firstTable' = IF pc = "done" /\ runs = 0 THEN table ELSE firstTable
  /\ pc' = "start"
  /\ fi' = 1
  /\ records' = <<>>
  /\ total' = 0
  /\ batches' = 0
  /\ b' = 0
  /\ start' = 0
  /\ cnx' = "unbound"
  /\ err' = "none"
  /\ txn' = <<>>
  /\ sent' = <<>>
  /\ verified' = FALSE
  /\ diag' = "none"
  /\ UNCHANGED <<ing, BATCH_SIZE, srcExists, files, old, table, convVars, other>>

NextUpsert ==
  \/ CheckSource
  \/ Connect
  \/ LoadFile
  \/ ExecuteBatch
  \/ CommitBatch
  \/ RollbackBatch
  \/ EndLoop
  \/ Finally
  \/ Rerun

SpecUpsert == InitUpsert /\ [][NextUpsert]_vars

\* ---------------------------------------- two processes running one script
\* The state of a process that has just entered main().
Entered ==
  [pc |-> "start", fi |-> 1, records |-> <<>>, total |-> 0, batches |-> 0, b |-> 0,
   start |-> 0, cnx |-> "unbound", err |-> "none", txn |-> <<>>, sent |-> <<>>,
   verified |-> FALSE, diag |-> "none"]

\* Two processes run the same insert-only script over the same complete
\* file, each with its own connection, against the one table.
InitPair ==
  /\ ing \in Ingesters \ {"weather"}
  /\ BATCH_SIZE \in 1..MaxBatch
  /\ srcExists = TRUE
  /\ files \in {<<f>> : f \in {g \in FileOf(ing, CsvName(ing)) : g.miss = "none"}}
  /\ old \in 0..MaxOld
  /\ table = [k \in 1..old |-> OldRow(ing)]
  /\ pc = Entered.pc
  /\ fi = Entered.fi
  /\ records = Entered.records
  /\ total = Entered.total
  /\ batches = Entered.batches
  /\ b = Entered.b
  /\ start = Entered.start
  /\ cnx = Entered.cnx
  /\ err = Entered.err
  /\ txn = Entered.txn
  /\ sent = Entered.sent
  /\ verified = Entered.verified
  /\ diag = Entered.diag
  /\ other = Entered
  /\ attempt = 0
  /\ runs = 0
  /\ firstTable = <<>>
  /\ cell = <<>>
  /\ conv = "none"
  /\ args = <<>>
  /\ out = NoneV

\* The operating system runs the other process: the one that was running
\* keeps its own state of main(), connection and open transaction.
Switch ==
  /\ other # NoProcess
  /\ other.pc \notin {"done", "failed"}
  /\ other' = [pc |-> pc, fi |-> fi, records |-> records, total |-> total,
                batches |-> batches, b |-> b, start |-> start, cnx |-> cnx,
                err |-> err, txn |-> txn, sent |-> sent, verified |-> verified,
                diag |-> diag]
  /\ pc' = other.pc
  /\ fi' = other.fi
  /\ records' = other.records
  /\ total' = other.total
  /\ batches' = other.batches
  /\ b' = other.b
  /\ start' = other.start
  /\ cnx' = other.cnx
  /\ err' = other.err
  /\ txn' = other.txn
  /\ sent' = other.sent
  /\ verified' = other.verified
  /\ diag' = other.diag
  /\ UNCHANGED <<ing, BATCH_SIZE, srcExists, files, old, table, convVars, attempt, runs,
                 firstTable>>

NextPair ==
  \/ CheckSource
  \/ ReadFile
  \/ Connect
  \/ ExecuteBatch
  \/ CommitBatch
  \/ RollbackBatch
  \/ EndLoop
  \/ Verify
  \/ Finally
  \/ Switch

SpecPair == InitPair /\ [][NextPair]_vars

\* ------------------------------------------------- the converters on a cell
\* The texts tried as a cell value.
MaxLen == 3
MaxBlank == 2

RECURSIVE TextsUpTo(_, _)
TextsUpTo(alphabet, n) ==
  IF n = 0 THEN {<<>>}
  ELSE LET shorter == TextsUpTo(alphabet, n - 1) IN
         shorter \cup {Append(s, c) : s \in shorter, c \in alphabet}

RECURSIVE CaseVariants(_)
CaseVariants(w) ==
  IF w = <<>> THEN {<<>>}
  ELSE {<<c>> \o r : c \in {LowerChar(Head(w)), UpperChar(Head(w))},
                     r \in CaseVariants(Tail(w))}

NumberTexts == TextsUpTo({"0", "1", "4", "5", "-", ",", " "}, MaxLen)
PlaceholderTexts ==
  {<<>>} \cup CaseVariants(<<"n", "a">>) \cup CaseVariants(<<"n", "/", "a">>) \cup CaseVariants(<<"n", "u", "l", "l">>)
BlankTexts == TextsUpTo(Space, MaxBlank) \ {<<>>}
NamedTexts ==
  {<<"i", "n", "f">>,
   <<"-", "i", "n", "f">>,
   <<"I", "n", "f", "i", "n", "i", "t", "y">>,
   <<"n", "a", "n">>,
   <<"1", "e", "5">>,
   <<"1", "e", "9", "9", "9">>,
   <<"1", ".", "5">>,
   <<"4", ".", "5">>,
   <<"-", ".", "5">>,
   <<"+", "5">>,
   <<"1", "e">>,
   <<"1", ".">>,
   <<"a", "b", "c">>,
   <<"4", "5", "0">>,
   <<"1", "5", "0">>,
   <<"4", "0", "0">>,
   <<"4", "0", "1">>,
   <<"-", "1">>,
   <<"1", ",", "2", "0", "0">>,
   <<"4", " ", "0", " ", "0">>,
   <<"2", "0", "1", "5", "-", "0", "8", "-", "2", "7">>,
   <<"8", "/", "2", "7", "/", "1", "5">>,
   <<"0", "8", "/", "2", "7", "/", "2", "0", "1", "5">>,
   <<"8", "-", "2", "7", "-", "2", "0", "1", "5">>,
   <<"8", "-", "2", "7", "-", "1", "5">>,
   <<"0", "2", "/", "3", "0", "/", "2", "0", "1", "5">>,
   <<"2", "0", "2", "4", "-", "0", "3">>,
   <<"0", "9", "9", "9", "-", "0", "3">>,
   <<"2", "0", "2", "4", "-", "1", "3">>,
   <<"E", "x", "c", "e", "l", "l", "e", "n", "t">>,
   <<"g", "o", "o", "d">>,
   <<"P", "o", "o", "r">>,
   <<"D", "e", "a", "d">>,
   <<"F", "a", "i", "r">>,
   <<"u", "n", "k", "n", "o", "w", "n", "-", "l", "a", "b", "e", "l">>,
   <<"E">>, <<"g">>, <<"p">>, <<"D">>, <<"f">>,
   <<"e", "x", "c", "e", "l", "l", "e", "n", "t">>,
   <<"G", "O", "O", "D">>,
   <<" ", "P", "o", "o", "r", " ">>,
   <<"g", "o", "o", "d", "s">>,
   <<"n", "o", "t", " ", "p", "o", "o", "r">>,
   <<"y", "e", "s">>,
   <<"N", "o">>,
   <<"P", "a", "r", "k", " ", "S", "l", "o", "p", "e">>,
   <<"N", "o", "w", "h", "e", "r", "e", " ", "P", "l", "a", "c", "e">>,
   <<"B", "r", "o", "n", "x">>,
   <<"M", "o", "r", "r", "i", "s", " ", "H", "e", "i", "g", "h", "t", "s">>,
   <<"J", "a", "c", "k", "s", "o", "n", " ", "H", "e", "i", "g", "h", "t", "s">>,
   <<"W", "a", "s", "h", "i", "n", "g", "t", "o", "n", " ", "H", "e", "i", "g", "h", "t", "s">>,
   <<"H", "a", "r", "l", "e", "m">>,
   <<"F", "a", "r", " ", "R", "o", "c", "k", "a", "w", "a", "y">>,
   <<"R", "i", "c", "h", "m", "o", "n", "d", " ", "H", "i", "l", "l">>,
   <<"C", "r", "o", "w", "n", " ", "H", "e", "i", "g", "h", "t", "s">>,
   <<"S", "t", "a", "t", "e", "n", " ", "I", "s", "l", "a", "n", "d">>}

\* Header texts: letters of both cases, spaces and tabs.
HeaderTexts == TextsUpTo({"A", "b", " ", "\t"}, MaxLen)

\* Date texts: a month, a day and a year field, valid or not, in the five
\* layouts of to_iso_date.
MonthFields == {<<"1">>, <<"0", "2">>, <<"1", "2">>, <<"1", "3">>}
DayFields == {<<"1">>, <<"0", "9">>, <<"2", "9">>, <<"3", "0">>, <<"3", "1">>, <<"3", "2">>}
Year4Fields == {<<"2", "0", "1", "5">>, <<"2", "0", "2", "4">>, <<"0", "9", "9", "9">>,
                <<"0", "0", "0", "0">>}
Year2Fields == {<<"0", "0">>, <<"6", "8">>, <<"6", "9">>, <<"1", "5">>}
DateTexts ==
  {m \o <<sep>> \o dd \o <<sep>> \o y :
     m \in MonthFields, dd \in DayFields, y \in Year4Fields \cup Year2Fields,
     sep \in {"/", "-"}}
  \cup {y \o <<"-">> \o m \o <<"-">> \o dd :
          y \in Year4Fields, m \in MonthFields, dd \in DayFields}

\* The keys of the exception dictionary, as place names of the air file.
DictionaryKeys == {BOROUGH_MAP_SECONDARY[k][1] : k \in 1..Len(BOROUGH_MAP_SECONDARY)}

CellTexts ==
  NumberTexts \cup PlaceholderTexts \cup BlankTexts \cup NamedTexts \cup HeaderTexts
    \cup DateTexts \cup DictionaryKeys

\* A header of the census files, beside the one tried.
OtherHeader == <<" ", "T", "r", "e", "e", " ", "I", "D">>
\* The header rows tried: the cell's text alone or beside another header.
HeaderRows(h) == {<<>>, <<h>>, <<h, OtherHeader>>, <<OtherHeader, h>>}

\* The (low, high) pairs to_int_bounded is called with; the scripts use (0, 400).
BoundPairs == {<<0, 400>>, <<-5, 5>>}

\* The anomaly cell beside the month cell of a berkeley row.
AnomalyTexts == {<<>>, <<"1", ".", "5">>}

\* The station cell beside the date cell of a weather row; NoneV is NaN.
StationCells == {NoneV, TextV(<<>>), TextV(<<" ">>), TextV(<<"U", "S", "W", "1">>)}

InitConv ==
  /\ cell \in CellTexts
  /\ conv = "none"
  /\ args = <<>>
  /\ out = NoneV
  /\ ing = "i1995"
  /\ BATCH_SIZE = 1
  /\ srcExists = TRUE
  /\ files = <<>>
  /\ old = 0
  /\ table = <<>>
  /\ txn = <<>>
  /\ pc = "convert"
  /\ fi = 1
  /\ records = <<>>
  /\ total = 0
  /\ batches = 0
  /\ b = 0
  /\ start = 0
  /\ cnx = "unbound"
  /\ err = "none"
  /\ sent = <<>>
  /\ verified = FALSE
  /\ diag = "none"
  /\ attempt = 0
  /\ runs = 0
  /\ firstTable = <<>>
  /\ other = NoProcess

\* df[col].map(f): converter `name` is applied to the cell, with the further
\* arguments a, and returns (or raises) result.
Call(name, a, result) ==
  /\ pc = "convert"
  /\ conv = "none"
  /\ conv' = name
  /\ args' = a
  /\ out' = result
  /\ UNCHANGED <<cell, runVars>>

\* df.columns = normalize_headers(df.columns)
Apply_normalize_headers ==
  \E cols \in HeaderRows(cell) :
    Call("normalize_headers", <<cols>>, [t |-> "list", v |-> normalize_headers(cols)])
Apply_to_bool == Call("to_bool", <<>>, to_bool(cell))
Apply_to_int == Call("to_int", <<>>, to_int(cell))
Apply_to_int_bounded ==
  \E p \in BoundPairs : Call("to_int_bounded", p, to_int_bounded(cell, p[1], p[2]))
Apply_to_dec == Call("to_dec", <<>>, to_dec(cell))
Apply_to_year == Call("to_year", <<>>, to_year(cell))
Apply_condition_to_health_3cat ==
  Call("condition_to_health_3cat", <<>>, condition_to_health_3cat(cell))
Apply_status_to_health_3cat ==
  Call("status_to_health_3cat", <<>>, status_to_health_3cat(cell))
Apply_health_to_health_3cat ==
  Call("health_to_health_3cat", <<>>, health_to_health_3cat(cell))
Apply_to_iso_date == Call("to_iso_date", <<>>, to_iso_date(cell))
Apply_infer_borough == Call("infer_borough", <<>>, infer_borough(cell))
Apply_infer_geo_level == Call("infer_geo_level", <<>>, infer_geo_level(cell))
Apply_to_float == Call("to_float", <<>>, to_float(cell))
Apply_abs_month_temp ==
  /\ to_float(cell).t = "float"
  /\ to_float(cell).k # "nan"
  /\ \E a \in AnomalyTexts :
       Call("abs_month_temp", <<a>>, abs_month_temp(to_float(cell), to_float(a)))
Apply_clean_numeric == Call("clean_numeric", <<>>, clean_numeric(cell))
Apply_int_clean_numeric == Call("int_clean_numeric", <<>>, int_clean_numeric(cell))
Apply_f_to_c == Call("f_to_c", <<>>, f_to_c(clean_numeric(cell)))
Apply_to_date_month ==
  \E padYear \in BOOLEAN :
    Call("to_date_month", <<padYear>>, to_date_month(cell, padYear))

Apply_weather_row ==
  \E station \in StationCells, padYear \in BOOLEAN :
    Call("weather_row", <<station, padYear>>, weather_row(station, cell, padYear))

NextConv ==
  \/ Apply_normalize_headers
  \/ Apply_to_bool
  \/ Apply_to_int
  \/ Apply_to_int_bounded
  \/ Apply_to_dec
  \/ Apply_to_year
  \/ Apply_condition_to_health_3cat
  \/ Apply_status_to_health_3cat
  \/ Apply_health_to_health_3cat
  \/ Apply_to_iso_date
  \/ Apply_infer_borough
  \/ Apply_infer_geo_level
  \/ Apply_to_float
  \/ Apply_abs_month_temp
  \/ Apply_clean_numeric
  \/ Apply_int_clean_numeric
  \/ Apply_f_to_c
  \/ Apply_to_date_month
  \/ Apply_weather_row

SpecConv == InitConv /\ [][NextConv]_vars


\* ------------------------------------------------- properties of the run
RECURSIVE Concat(_)
Concat(seqs) == IF seqs = <<>> THEN <<>> ELSE Head(seqs) \o Concat(Tail(seqs))

\* The rows this run has committed.
RunRows == SubSeq(table, old + 1, Len(table))

\* The batches handed to executemany for file f, in the order they were sent.
SlicesOf(f) ==
  LET OfFile(e) == e.file = f
      es == SelectSeq(sent, OfFile)
  IN [k \in 1..Len(es) |-> es[k].rows]

\* The loop over the records of a file has run to its end.
FileLoaded == pc = "verify" \/ (ing = "weather" /\ pc = "file" /\ fi > 1)
LoadedFile == IF ing = "weather" THEN fi - 1 ELSE 1

\* C1: when the batch loop over R records with batch size S has finished, it
\* has sent exactly ceil(R/S) slices, each but the last of S records, the last
\* of 1..S records, and their concatenation in sending order is the record
\* sequence.  Both loop forms.
C1_Batching ==
  FileLoaded =>
    LET sl == SlicesOf(LoadedFile)
        n == Len(sl)
    IN /\ n * BATCH_SIZE >= total
       /\ (n - 1) * BATCH_SIZE < total
       /\ \A k \in 1..(n - 1) : Len(sl[k]) = BATCH_SIZE
       /\ n > 0 => Len(sl[n]) \in 1..BATCH_SIZE
       /\ Concat(sl) = records

\* An index-form load of two slices, the last one short, has finished.
C1_Witness ==
  /\ FileLoaded
  /\ ing \in IndexForm
  /\ Len(sent) = 2
  /\ Len(sent[2].rows) < BATCH_SIZE

AllButLastSent == [k \in 1..(Len(sent) - 1) |-> sent[k].rows]

\* C2: when the insert of batch k raises, batches 1..k-1 stay committed, the
\* transaction of batch k is rolled back and stores nothing, no later batch
\* and no verification query is executed, and the run fails with that error.
C2_BatchFailure ==
  /\ [](err = "BatchError" =>
          /\ pc \in {"finally", "failed"}
          /\ txn = <<>>
          /\ ~verified
          /\ RunRows = Concat(AllButLastSent))
  /\ [][pc = "rollback" =>
          /\ pc' = "finally"
          /\ err' = "BatchError"
          /\ txn' = <<>>
          /\ table' = table
          /\ sent' = sent]_vars
  /\ [][err = "BatchError" =>
          /\ pc' = "failed"
          /\ err' = err
          /\ table' = table
          /\ sent' = sent
          /\ verified' = verified]_vars

\* A two-batch load whose second batch raised: the first batch is stored.
C2_Witness ==
  /\ pc = "failed"
  /\ err = "BatchError"
  /\ Len(sent) = 2
  /\ RunRows = sent[1].rows
  /\ RunRows # <<>>

\* C3: in an insert-only run the committed rows are always the first k whole
\* batches of the records, for some k up to the number of batches, and batch
\* k+1 is not executed before batch k is committed.
C3_WholeBatchPrefix ==
  ing # "weather" =>
    \E k \in 0..Len(records) :
      /\ (k - 1) * BATCH_SIZE < total \/ k = 0
      /\ RunRows = SubSeq(records, 1, Min(k * BATCH_SIZE, total))
      /\ Len(sent) \in {k, k + 1}
      /\ \A j \in 1..Len(sent) :
           sent[j].rows =
             SubSeq(records, (j - 1) * BATCH_SIZE + 1, Min(j * BATCH_SIZE, total))

\* One batch is committed and the next one is in its transaction.
C3_Witness ==
  /\ ing # "weather"
  /\ pc = "commit"
  /\ txn # <<>>
  /\ RunRows # <<>>

\* The run failed on the error that the header of the file it was reading
\* produces.
SchemaFailure ==
  /\ pc = "failed"
  /\ fi <= Len(files)
  /\ files[fi].miss # "none"
  /\ err = ReadOutcome(ing, files[fi].miss)

\* C4: when an input file lacks a required column the run fails and has
\* committed no row and sent no batch to storage, in every ingester.
C4_SchemaMismatchCommitsNothing ==
  SchemaFailure => RunRows = <<>> /\ sent = <<>>

\* C5: when the input file or directory is absent the run ends in a fatal
\* error, opens no connection and commits no row, in every ingester.
C5_AbsentSourceIsFatal ==
  (~srcExists /\ pc # "start") =>
    /\ pc = "failed"
    /\ err = "FileNotFoundError"
    /\ cnx = "unbound"
    /\ RunRows = <<>>

\* C6: a run that ends successfully has executed the verification query.
C6_DoneOnlyAfterVerify == pc = "done" => verified

\* C9: every record sent to the loader has a file_name field that is the name
\* of the file it was read from.
C9_Provenance ==
  \A k \in 1..Len(sent) :
    \A j \in 1..Len(sent[k].rows) :
      LET rec == sent[k].rows[j] IN
        /\ "file_name" \in DOMAIN rec
        /\ rec["file_name"] = files[sent[k].file].name

\* -------------------------------------------- properties of the converters
\* C7: no converter applied during transformation raises, whatever the text
\* of the cell.
C7_NoConverterRaises == conv # "none" => out.t # "raise"

\* The placeholder texts in any letter case, and the whitespace-only texts.
IsPlaceholder(s) ==
  \/ \A k \in 1..Len(s) : s[k] \in Space
  \/ \E w \in {<<"n", "a">>, <<"n", "/", "a">>, <<"n", "u", "l", "l">>} :
       /\ Len(s) = Len(w)
       /\ \A k \in 1..Len(w) : s[k] \in {w[k], UpperChar(w[k])}

PlaceholderConverters ==
  {"to_int", "to_int_bounded", "to_dec", "to_bool", "to_iso_date",
   "condition_to_health_3cat", "status_to_health_3cat", "health_to_health_3cat",
   "infer_borough", "infer_geo_level", "to_float", "clean_numeric",
   "to_date_month"}

\* C8 as stated: every value converter returns null for "", NA, N/A, null in
\* any letter case and for every whitespace-only text.
C8_PlaceholderIsNull ==
  (conv \in PlaceholderConverters /\ IsPlaceholder(cell)) => out.t = "none"

\* C8, amended: every value converter but the two geographic ones returns
\* null for these texts; infer_borough returns "Unknown"; infer_geo_level
\* returns "Unknown" for an empty or whitespace-only text and "Neighborhood"
\* for NA, N/A and null.
C8_PlaceholderIsNullOrUnknown ==
  (conv \in PlaceholderConverters /\ IsPlaceholder(cell)) =>
    IF conv = "infer_borough" THEN out = StrV("Unknown")
    ELSE IF conv = "infer_geo_level"
      THEN out = StrV(IF \A k \in 1..Len(cell) : cell[k] \in Space
                        THEN "Unknown" ELSE "Neighborhood")
    ELSE out.t = "none"

\* infer_geo_level has been applied to a whitespace-only cell.
C8_Witness ==
  /\ conv = "infer_geo_level"
  /\ cell = <<" ", "\t">>
  /\ out = StrV("Unknown")

\* The text u is an optional minus sign followed by one or more digits that
\* denote v.
Denotes(u, v) ==
  LET body == IF u # <<>> /\ u[1] = "-" THEN Tail(u) ELSE u
      abs == IF v < 0 THEN 0 - v ELSE v
  IN /\ body # <<>>
     /\ \A k \in 1..Len(body) : body[k] \in {"0", "1", "2", "3", "4", "5", "6", "7", "8", "9"}
     /\ Len(Digits(abs, Len(body))) = Len(body)
     /\ Digits(abs, Len(body)) = body
     /\ v < 0 => u[1] = "-"
     /\ v > 0 => u[1] # "-"

\* C10: to_int_bounded(s, low, high) returns v exactly when s without its
\* commas and whitespace is an optional minus and digits denoting v with
\* low <= v <= high, and null otherwise; with [0, 400]: "450" and "abc" and
\* "-1" give null, "150" gives 150, "400" gives 400.
C10_BoundedInt ==
  conv = "to_int_bounded" =>
    LET low == args[1]
        high == args[2]
        Kept(c) == c \notin {",", " ", "\t"}
        u == SelectSeq(cell, Kept)
    IN /\ out.t \in {"int", "none"}
       /\ out.t = "int" => Denotes(u, out.v) /\ low <= out.v /\ out.v <= high
       /\ out.t = "none" => ~ \E v \in low..high : Denotes(u, v)
       /\ args = <<0, 400>> =>
            /\ cell = <<"4", "5", "0">> => out = NoneV
            /\ cell = <<"1", "5", "0">> => out = IntV(150)
            /\ cell = <<"a", "b", "c">> => out = NoneV
            /\ cell = <<"4", "0", "0">> => out = IntV(400)
            /\ cell = <<"-", "1">> => out = NoneV

\* to_int_bounded("400", 0, 400) has returned 400.
C10_Witness ==
  /\ conv = "to_int_bounded"
  /\ args = <<0, 400>>
  /\ cell = <<"4", "0", "0">>
  /\ out = IntV(400)

\* ------------------------------------------------------ category buckets
\* The cell's label: stripped, in lower case.
Label == Lower(Strip(cell))
ShiftedConverters == {"condition_to_health_3cat", "status_to_health_3cat"}
CategoryConverters == ShiftedConverters \cup {"health_to_health_3cat"}
ExcellentLabel == <<"e", "x", "c", "e", "l", "l", "e", "n", "t">>
GoodLabel == <<"g", "o", "o", "d">>
FairLabel == <<"f", "a", "i", "r">>
PoorLabel == <<"p", "o", "o", "r">>
DeadLabel == <<"d", "e", "a", "d">>

\* C11 as stated: each of the three category converters maps Excellent to
\* Good, Good to Fair, each of Poor, Dead and Fair to Poor, and every other
\* label to null, whatever the letter case.
C11_CategoryBuckets ==
  conv \in CategoryConverters =>
    out = IF Label = ExcellentLabel THEN StrV("Good")
          ELSE IF Label = GoodLabel THEN StrV("Fair")
          ELSE IF Label \in {PoorLabel, DeadLabel, FairLabel} THEN StrV("Poor")
          ELSE NoneV

\* C11, amended: the 1995 and 2005 converters map Excellent (or E) to Good,
\* Good (or G) to Fair, each of Poor, Dead, Fair (or P, D, F) to Poor; the
\* 2015 converter maps Good to Good, Fair to Fair and Poor to Poor; every
\* other label gives null; matching is on the whole stripped label in any
\* letter case.
C11_CategoryBucketsPerDataset ==
  /\ conv \in ShiftedConverters =>
       out = IF Label \in {ExcellentLabel, <<"e">>} THEN StrV("Good")
             ELSE IF Label \in {GoodLabel, <<"g">>} THEN StrV("Fair")
             ELSE IF Label \in {PoorLabel, DeadLabel, FairLabel, <<"p">>, <<"d">>, <<"f">>}
               THEN StrV("Poor")
             ELSE NoneV
  /\ conv = "health_to_health_3cat" =>
       out = IF Label = GoodLabel THEN StrV("Good")
             ELSE IF Label = FairLabel THEN StrV("Fair")
             ELSE IF Label = PoorLabel THEN StrV("Poor")
             ELSE NoneV

\* condition_to_health_3cat has mapped "Excellent" to "Good".
C11_Witness ==
  /\ conv = "condition_to_health_3cat"
  /\ cell = <<"E", "x", "c", "e", "l", "l", "e", "n", "t">>
  /\ out = StrV("Good")

\* ------------------------------------------------------ borough inference
Boroughs == {"Manhattan", "Bronx", "Brooklyn", "Queens", "Staten Island", "Unknown"}

\* The entries of the exception dictionary whose key is a substring of the
\* cell's name, and whether some generic keyword is one.
ExceptionHits ==
  {k \in 1..Len(BOROUGH_MAP_SECONDARY) : Contains(Label, BOROUGH_MAP_SECONDARY[k][1])}
GenericHit ==
  \E keys \in {BRONX_KEYWORDS, BROOKLYN_KEYWORDS, QUEENS_KEYWORDS,
                MANHATTAN_KEYWORDS, STATEN_ISLAND_KEYWORDS} : AnyIn(Label, keys)

\* C12: infer_borough returns one of the six regions; for a name containing
\* an exception-dictionary key it returns the borough of such a key, whatever
\* generic keywords the name contains; for a name with no exception key and
\* no generic keyword it returns "Unknown"; "Park Slope" gives "Brooklyn".
C12_ExceptionsFirst ==
  conv = "infer_borough" =>
    /\ out.t = "str"
    /\ out.v \in Boroughs
    /\ ExceptionHits # {} => \E k \in ExceptionHits : out.v = BOROUGH_MAP_SECONDARY[k][2]
    /\ (ExceptionHits = {} /\ ~GenericHit) => out.v = "Unknown"
    /\ cell = <<"P", "a", "r", "k", " ", "S", "l", "o", "p", "e">> => out.v = "Brooklyn"
    /\ cell = <<"N", "o", "w", "h", "e", "r", "e", " ", "P", "l", "a", "c", "e">> => out.v = "Unknown"

\* infer_borough has been applied to "Morris Heights", which holds the
\* exception key "heights" (Brooklyn) and the generic Bronx keyword "morris".
C12_Witness ==
  /\ conv = "infer_borough"
  /\ cell = <<"M", "o", "r", "r", "i", "s", " ", "H", "e", "i", "g", "h", "t", "s">>
  /\ out = StrV("Brooklyn")

\* ------------------------------------------------------- absent columns
\* C13: a header that lacks a source column the insert columns depend on is
\* fatal: no batch is sent from such a file, no record sent has a column
\* filled with a default, and the run does not end in Done.
C13_AbsentColumnIsFatal ==
  /\ \A k \in 1..Len(sent) :
       /\ files[sent[k].file].miss = "none"
       /\ Defaulted(ing, files[sent[k].file].miss) = {}
  /\ pc = "done" => \A k \in 1..Len(files) : files[k].miss = "none"

\* ---------------------------------------------------- connection failure
\* The diagnostics that name the cause of a connection failure.
SpecificDiagnostics(e) ==
  IF e = "ER_ACCESS_DENIED_ERROR"
    THEN {"Access denied: check user/password.",
          "Something is wrong with your user name or password"}
    ELSE {"Database does not exist.", "Database does not exist"}

\* C14: when connecting fails with access denied or unknown database, the run
\* executes no batch insert and no verification query, goes to Failed, and
\* has reported a diagnostic specific to that cause when it gets there.
C14_ConnectionFailure ==
  err \in {"ER_ACCESS_DENIED_ERROR", "ER_BAD_DB_ERROR"} =>
    /\ sent = <<>>
    /\ ~verified
    /\ pc \in {"finally", "failed"}
    /\ pc = "failed" => diag \in SpecificDiagnostics(err)

\* ---------------------------------------------------- header normalization
IsUpperCase(c) == \E k \in 1..Len(UpperCase) : UpperCase[k] = c

\* C15: normalize_headers is idempotent and total: normalizing its output
\* gives the output again; the output has the length and the order of the
\* input; no output string holds a space or an uppercase letter, or begins
\* or ends with whitespace.
C15_NormalizeHeaders ==
  conv = "normalize_headers" =>
    LET h == args[1]
        o == out.v
    IN /\ out.t = "list"
       /\ normalize_headers(o) = o
       /\ Len(o) = Len(h)
       /\ \A k \in 1..Len(h) :
            /\ o[k] = normalize_headers(<<h[k]>>)[1]
            /\ \A j \in 1..Len(o[k]) : o[k][j] # " " /\ ~IsUpperCase(o[k][j])
            /\ o[k] # <<>> => o[k][1] \notin Space /\ o[k][Len(o[k])] \notin Space

\* normalize_headers has turned <<"A b", " Tree ID">> into <<"a_b", "tree_id">>.
C15_Witness ==
  /\ conv = "normalize_headers"
  /\ args = << << <<"A", " ", "b">>, OtherHeader >> >>
  /\ out.v = << <<"a", "_", "b">>, <<"t", "r", "e", "e", "_", "i", "d">> >>

\* ------------------------------------------------------------- ISO dates
\* The three fields of a text cut at its separators, <<>> when it is not
\* three runs of digits with that separator between them.
DateFields(u, sep) ==
  LET at == {k \in 1..Len(u) : u[k] = sep} IN
    IF Cardinality(at) # 2 THEN <<>>
    ELSE LET i == CHOOSE k \in at : \A j \in at : k <= j
             l == CHOOSE k \in at : \A j \in at : k >= j
             parts == <<SubSeq(u, 1, i - 1), SubSeq(u, i + 1, l - 1), SubSeq(u, l + 1, Len(u))>>
         IN IF \A k \in 1..3 : parts[k] # <<>> /\ AllDigits(parts[k]) THEN parts ELSE <<>>

\* The calendar dates the text denotes in one of the five formats
\* %Y-%m-%d, %m/%d/%Y, %m/%d/%y, %m-%d-%Y, %m-%d-%y (two-digit years: 69..99
\* are 19xx, 00..68 are 20xx).
DatesDenoted(u) ==
  LET Short(f) == Len(f) \in {1, 2}
      Year2(n) == IF n < 69 THEN 2000 + n ELSE 1900 + n
      Date(y, m, dd) ==
        IF y >= 1 /\ m \in 1..12 /\ dd >= 1 /\ dd <= DaysIn(y, m)
          THEN {[y |-> y, m |-> m, d |-> dd]} ELSE {}
      dash == DateFields(u, "-")
      slash == DateFields(u, "/")
      YearFirst ==
        IF dash # <<>> /\ Len(dash[1]) = 4 /\ Short(dash[2]) /\ Short(dash[3])
          THEN Date(NatOf(dash[1]), NatOf(dash[2]), NatOf(dash[3])) ELSE {}
      MonthFirst(f) ==
        IF f # <<>> /\ Short(f[1]) /\ Short(f[2]) /\ Len(f[3]) = 4
          THEN Date(NatOf(f[3]), NatOf(f[1]), NatOf(f[2]))
        ELSE IF f # <<>> /\ Short(f[1]) /\ Short(f[2]) /\ Len(f[3]) = 2
          THEN Date(Year2(NatOf(f[3])), NatOf(f[1]), NatOf(f[2]))
        ELSE {}
  IN YearFirst \cup MonthFirst(slash) \cup MonthFirst(dash)

\* YYYY-MM-DD
IsoText(dt) ==
  Digits(dt.y, 4) \o <<"-">> \o Digits(dt.m, 2) \o <<"-">> \o Digits(dt.d, 2)

\* C16: to_iso_date never raises; a text that is a valid date in one of the
\* five formats gives that date as YYYY-MM-DD; the result is that of the
\* first format, in the stated order, that parses, and null when none does;
\* to_iso_date of a non-null result is that result.
C16_IsoDate ==
  conv = "to_iso_date" =>
    LET u == Strip(cell)
        parsing == {k \in 1..Len(DATE_FORMATS) : Strptime(u, DATE_FORMATS[k]).ok}
    IN /\ out.t \in {"none", "text"}
       /\ DATE_FORMATS = << <<"%Y", "-", "%m", "-", "%d">>, <<"%m", "/", "%d", "/", "%Y">>,
                            <<"%m", "/", "%d", "/", "%y">>, <<"%m", "-", "%d", "-", "%Y">>,
                            <<"%m", "-", "%d", "-", "%y">> >>
       /\ \A dt \in DatesDenoted(u) : out = TextV(IsoText(dt))
       /\ parsing = {} => out = NoneV
       /\ parsing # {} =>
            LET first == CHOOSE k \in parsing : \A j \in parsing : k <= j
            IN out = TextV(IsoText(Strptime(u, DATE_FORMATS[first])))
       /\ out.t = "text" =>
            /\ to_iso_date(out.v) = out
            /\ Len(out.v) = 10
            /\ DatesDenoted(out.v) # {}

\* to_iso_date has turned "02/29/2024" into "2024-02-29".
C16_Witness ==
  /\ conv = "to_iso_date"
  /\ cell = <<"0", "2", "/", "2", "9", "/", "2", "0", "2", "4">>
  /\ out = TextV(<<"2", "0", "2", "4", "-", "0", "2", "-", "2", "9">>)

\* ---------------------------------------------------------------- retry
\* C17: no batch is executed twice in a run (no record of a file is handed
\* to executemany in two batches), and from the first batch failure on no
\* further insert statement is issued, in any file.
C17_NoRetry ==
  /\ [](\A j \in 1..Len(sent) : \A k \in 1..Len(sent) :
          (j < k /\ sent[j].file = sent[k].file) =>
            /\ sent[j].rows # <<>>
            /\ \A x \in 1..Len(sent[j].rows) : \A y \in 1..Len(sent[k].rows) :
                 sent[j].rows[x] # sent[k].rows[y])
  /\ [][(pc = "rollback" \/ err = "BatchError") => sent' = sent]_vars

\* A weather run over two files with rows whose first file's first batch
\* failed: it ended having sent that one batch.
C17_Witness ==
  /\ ing = "weather"
  /\ pc = "failed"
  /\ err = "BatchError"
  /\ Len(files) = 2
  /\ files[2].rows > 0
  /\ Len(sent) = 1

\* --------------------------------------------------------------- upsert
\* Every record handed to executemany by the current run, in order.
AllSent == Concat([k \in 1..Len(sent) |-> sent[k].rows])
SameKey(x, y) == \A c \in NATURAL_KEY : x[c] = y[c]

\* C18: when a run of the weather loader has ended in Done, the table holds
\* at most one row per (station_id, date_month), the non-key columns of the
\* row of a key are those of the last record sent with that key, and the
\* table is the one the first complete run over these files left.
C18_UpsertIdempotent ==
  (ing = "weather" /\ pc = "done") =>
    /\ \A j \in 1..Len(table) : \A k \in 1..Len(table) :
         SameKey(table[j], table[k]) => j = k
    /\ \A k \in 1..Len(table) : \A n \in 1..Len(AllSent) :
         (/\ SameKey(AllSent[n], table[k])
          /\ \A m \in (n + 1)..Len(AllSent) : ~SameKey(AllSent[m], table[k]))
           => \A c \in INSERT_COLUMNS_WEATHER \ NATURAL_KEY : table[k][c] = AllSent[n][c]
    /\ \A n \in 1..Len(AllSent) : \E k \in 1..Len(table) : SameKey(AllSent[n], table[k])
    /\ runs >= 1 => table = firstTable

\* A second complete run over two files that hold a row of the same key has
\* ended, and the row of that key is the one of the second file.
C18_Witness ==
  /\ ing = "weather"
  /\ pc = "done"
  /\ runs = 1
  /\ Len(files) = 2
  /\ \E k \in 1..Len(table) :
       /\ table[k]["file_name"] = WeatherFiles[2]
       /\ \E n \in 1..Len(AllSent) :
            SameKey(AllSent[n], table[k]) /\ AllSent[n]["file_name"] = WeatherFiles[1]

\* ----------------------------------------------------------- two runs
\* How many rows of the table are the record rec.
Copies(rec) == Cardinality({k \in 1..Len(table) : table[k] = rec})

\* C19: when two runs of an insert-only ingester over the same R records
\* have both ended in Done, whatever the order of their batch commits, the
\* table has 2R rows more than before: every record is stored twice.
C19_TwoRunsDoubleInsert ==
  (other # NoProcess /\ pc = "done" /\ other.pc = "done") =>
    /\ Len(table) = old + 2 * files[1].rows
    /\ Len(records) = files[1].rows
    /\ other.records = records
    /\ \A r \in 1..Len(records) : Copies(records[r]) = 2

\* Two runs over two records with batch size 1 have both ended in Done,
\* their commits alternating.
C19_Witness ==
  /\ other # NoProcess
  /\ pc = "done"
  /\ other.pc = "done"
  /\ BATCH_SIZE = 1
  /\ Len(RunRows) = 4
  /\ RunRows[1] = RunRows[2]
  /\ RunRows[3] = RunRows[4]
  /\ RunRows[1] # RunRows[3]

\* ------------------------------------------------------- weather rows
\* The text has the form YYYY-MM-01.
IsFirstOfMonth(t) ==
  /\ Len(t) = 10
  /\ \A k \in {1, 2, 3, 4, 6, 7} : IsDigit(t[k])
  /\ t[5] = "-"
  /\ t[8] = "-"
  /\ t[9] = "0"
  /\ t[10] = "1"

\* C20: every row of the weather frame that reaches the batches has a
\* station_id that is present and not empty and a date_month of the form
\* YYYY-MM-01.
C20_WeatherRowsClean ==
  (conv = "weather_row" /\ out.t = "row") =>
    /\ out.station_id # <<>>
    /\ IsFirstOfMonth(out.date_month)

\* ------------------------------------------- the exception dictionary
\* C21: for every key of BOROUGH_MAP_SECONDARY, infer_borough of the key
\* is the borough the dictionary gives that key.
C21_DictionarySelfConsistent ==
  conv = "infer_borough" =>
    \A k \in 1..Len(BOROUGH_MAP_SECONDARY) :
      cell = BOROUGH_MAP_SECONDARY[k][1] => out = StrV(BOROUGH_MAP_SECONDARY[k][2])

\* ------------------------------------------------------ zero records
\* C22: a run of a single-file ingester that connected with zero records
\* and has ended has sent no batch, has left the table as it was, has
\* executed the verification, and has ended in Done unless the database
\* itself failed the verification query.
C22_ZeroRecords ==
  (ing # "weather" /\ cnx # "unbound" /\ total = 0 /\ pc \in {"done", "failed"}) =>
    /\ sent = <<>>
    /\ table = [k \in 1..old |-> OldRow(ing)]
    /\ verified
    /\ pc = "done" \/ err = "VerifyError"

\* ------------------------------------------------------ the connection
\* C23: a run connects at most once (a connection, once bound, is never
\* bound again); a run that has ended has no open connection; the finally
\* block never changes the error of the run, whether close() raised, or
\* there was no connection to close: the run ends in Failed with the error
\* it had, or in Done if it had none.
C23_ConnectionClosed ==
  /\ [](pc \in {"done", "failed"} => cnx # "open")
  /\ [][cnx # "unbound" => (cnx' # "unbound" /\ (cnx' = "open" => cnx = "open"))]_vars
  /\ [][pc = "finally" =>
         /\ err' = err
         /\ pc' = IF err = "none" THEN "done" ELSE "failed"
         /\ cnx = "open" => cnx' \in {"closed", "lost"}]_vars

\* A run whose batch failed has ended with the batch's error, although
\* close() raised in the finally block.
C23_Witness ==
  /\ pc = "failed"
  /\ err = "BatchError"
  /\ cnx = "lost"
  /\ sent # <<>>

====
